---- MODULE Spec2Model ----
(***************************************************************************)
(* A model of aggforce's map layer (src/src/aggforce/map/core.py):         *)
(* LinearMap construction, LinearMap.__call__ with its NaN handling, the   *)
(* algebra of maps over shared numpy storage, the introspection methods    *)
(* and flat_call.                                                          *)
(*                                                                         *)
(* Floating point numbers are modelled as exact rationals <<n, d>> with    *)
(* d > 0 in lowest terms, plus the non-finite values NaN == <<0, 0>>,      *)
(* Inf == <<1, 0>> and NegInf == <<-1, 0>>.                                *)
(* Arrays are sequences (1-based); the source's 0-based index k is         *)
(* position k + 1.                                                         *)
(***************************************************************************)
EXTENDS Integers, Sequences, FiniteSets, TLC

VARIABLES
    lm,             \* the LinearMap instance: <<>> (none) or <<[standard_matrix, handle_nans, nan_check_threshold]>>
    ctor_args,      \* arguments of the last LinearMap(...) call: <<>> or <<args>>
    ctor_err,       \* how the last LinearMap(...) call ended: "none" or the exception's type
    points,         \* the caller's buffer handed to __call__
    orig,           \* contents of the caller's buffer when __call__ was entered
    pc,             \* position inside / outcome of __call__
    input_mask,     \* __call__'s local input_mask
    copybuf,        \* the private copy points.copy() (safe mode); <<>> when input_matrix is points itself
    raw_result,     \* __call__'s local raw_result
    pushed_result,  \* __call__'s local pushed_result
    result,         \* value returned by __call__: <<>> or <<array>>
    heap,           \* the numpy data buffers alive: a sequence of [data, dtype, made_by]
    insts,          \* the LinearMap instances of the algebra, in order of creation;
                    \* standard_matrix is a reference [buf, T] into heap
    alg_pc,         \* how far the caller's script of constructions and operations has got
    op,             \* the last method call and its outcome: <<>> or <<record>>
    history,        \* the calls of lm that have returned to the caller, oldest first
    cla,            \* the CLAMap instance: <<>> (none) or <<[_n_cg_sites, _n_fg_sites, scale, trans, tags]>>
    cla_args,       \* arguments of the last CLAMap(...) call: <<>> or <<args>>
    cla_err,        \* how the last CLAMap(...) call ended: "none" or the exception's type
    invoked,        \* the calls of scale and trans made by the last CLAMap operation, in order
    cla_call,       \* the last CLAMap.__call__ and its outcome: <<>> or <<record>>
    jcn,            \* the JCondNormal instance: <<>> (none) or <<[_cov, cov, premap, source_postmap, _rkey, dtype]>>
    jcn_log         \* the method calls made on jcn and their outcomes, oldest first

algvars == <<heap, insts, alg_pc, op>>

\* the CLAMap instance and its last operation
clavars == <<cla, cla_args, cla_err, invoked, cla_call>>

\* the JCondNormal instance and the calls made on it
jcnvars == <<jcn, jcn_log>>

\* the state of the caller's repeated calls, of CLAMap and of JCondNormal
extvars == <<history, clavars, jcnvars>>

vars == <<lm, ctor_args, ctor_err, points, orig, pc, input_mask, copybuf,
          raw_result, pushed_result, result, heap, insts, alg_pc, op, history,
          cla, cla_args, cla_err, invoked, cla_call, jcn, jcn_log>>

(***************************************************************************)
(* Bounds of the model.                                                    *)
(***************************************************************************)
MaxCg == 2          \* rows of an enumerated coefficient matrix
MaxFg == 2          \* columns of an enumerated coefficient matrix
MaxNonzero == 2     \* nonzero coefficients of an enumerated matrix
MaxFrames == 1      \* frames of an enumerated input buffer
MaxNaNs == 2        \* NaN entries of an enumerated input buffer
MaxLen == 2         \* fg indices listed by an enumerated grouping
MaxRepeats == 2     \* further calls of a map on the buffer of its first call

(***************************************************************************)
(* Floating point values.                                                  *)
(***************************************************************************)
NaN == <<0, 0>>
Inf == <<1, 0>>
NegInf == <<-1, 0>>

IsNaN(x) == x[2] = 0 /\ x[1] = 0
IsInf(x) == x[2] = 0 /\ x[1] # 0
IsFinite(x) == x[2] # 0

IAbs(n) == IF n < 0 THEN -n ELSE n

RECURSIVE GCD(_, _)
GCD(a, b) == IF b = 0 THEN a ELSE GCD(b, a % b)

Rat(n, d) ==
    LET g == GCD(IAbs(n), d) IN <<n \div g, d \div g>>

Zero == <<0, 1>>
One == <<1, 1>>
Half == <<1, 2>>
MinusOne == <<-1, 1>>
FromInt(n) == <<n, 1>>

FAdd(x, y) ==
    IF IsNaN(x) \/ IsNaN(y) THEN NaN
    ELSE IF IsInf(x) THEN (IF IsInf(y) /\ y # x THEN NaN ELSE x)
    ELSE IF IsInf(y) THEN y
    ELSE Rat(x[1] * y[2] + y[1] * x[2], x[2] * y[2])

FNeg(x) == <<-x[1], x[2]>>

FSub(x, y) == FAdd(x, FNeg(y))

FMul(x, y) ==
    IF IsNaN(x) \/ IsNaN(y) THEN NaN
    ELSE IF IsInf(x) \/ IsInf(y)
    THEN (IF x[1] = 0 \/ y[1] = 0 THEN NaN
          ELSE IF (x[1] > 0) = (y[1] > 0) THEN Inf ELSE NegInf)
    ELSE Rat(x[1] * y[1], x[2] * y[2])

FAbs(x) == <<IAbs(x[1]), x[2]>>

\* x <= y; false when either is NaN, as IEEE comparison is
FLe(x, y) ==
    /\ ~IsNaN(x) /\ ~IsNaN(y)
    /\ IF IsInf(x) /\ IsInf(y) THEN x[1] <= y[1]
       ELSE x[1] * y[2] <= y[1] * x[2]

\* mutant of line 142: the weight is not divided by the group size
RecipUnnormalised(n) == <<1, 1>>

\* 1 / n for a Python int n (n = 0 raises ZeroDivisionError before this is used)
Recip(n) == Rat(1, n)

(***************************************************************************)
(* numpy arrays of rank 3 (frames, sites, dims) and rank 2.                *)
(***************************************************************************)
NFrames(a) == Len(a)
NSites(a) == Len(a[1])
NDims(a) == Len(a[1][1])

\* flat = x.ravel(order="K"): every entry once, as a sequence
RECURSIVE Concat(_)
Concat(ss) == IF ss = <<>> THEN <<>> ELSE Head(ss) \o Concat(Tail(ss))

ravel(x) == Concat(Concat(x))

\* np.dot(a, b) of two 1-d arrays of equal length
RECURSIVE dot(_, _)
dot(a, b) ==
    IF a = <<>> THEN Zero
    ELSE FAdd(FMul(Head(a), Head(b)), dot(Tail(a), Tail(b)))

\* mutant of lines 13-16: every buffer is reported to hold a NaN
_has_nansAlways(x) == TRUE

\* _has_nans: the self dot product is NaN exactly when some entry is
_has_nans(x) == LET flat == ravel(x) IN IsNaN(dot(flat, flat))

\* trjdot(points, matrix): out[f, i, d] = sum_j matrix[i, j] * points[f, j, d]
trjdot(p, M) ==
    [f \in 1..NFrames(p) |->
        [i \in 1..Len(M) |->
            [d \in 1..NDims(p) |->
                dot(M[i], [j \in 1..NSites(p) |-> p[f][j][d]])]]]

\* np.isnan(points)
isnan(p) ==
    [f \in 1..NFrames(p) |-> [j \in 1..NSites(p) |-> [d \in 1..NDims(p) |->
        IsNaN(p[f][j][d])]]]

\* a[mask] = v, as a new value of the array a
SetMasked(a, mask, v) ==
    [f \in 1..NFrames(a) |-> [j \in 1..NSites(a) |-> [d \in 1..NDims(a) |->
        IF mask[f][j][d] THEN v ELSE a[f][j][d]]]]

\* numpy's default rtol of np.allclose, 1e-5
rtol == <<1, 100000>>

\* np.isclose(a, b, atol) for scalars: |a - b| <= atol + rtol * |b|
isclose(a, b, atol) ==
    FLe(FAbs(FSub(a, b)), FAdd(atol, FMul(rtol, FAbs(b))))

\* np.allclose(a, b, atol=atol) for two arrays of the same shape
allclose(a, b, atol) ==
    \A f \in 1..Len(a) : \A i \in 1..Len(a[f]) : \A d \in 1..Len(a[f][i]) :
        isclose(a[f][i][d], b[f][i][d], atol)

\* mutant of line 150: only NaN is looked for, as by np.isnan
AllFiniteNaNOnly(M) == \A i \in 1..Len(M) : \A j \in 1..Len(M[i]) : ~IsNaN(M[i][j])

\* np.all(np.isfinite(matrix))
AllFinite(M) == \A i \in 1..Len(M) : \A j \in 1..Len(M[i]) : IsFinite(M[i][j])

(***************************************************************************)
(* Python values handed to LinearMap(...) as `mapping`.                    *)
(*   "ndarray": a numpy array of rank ndim; data is its nested contents    *)
(*   "list":    a Python list; data is the sequence of its items           *)
(*   "scalar":  a numpy scalar (what iterating a 1-d array yields)         *)
(*   "object":  a value with no __iter__ (None, an int, ...)               *)
(* An optional argument is <<>> for None and <<v>> for the value v.        *)
(***************************************************************************)
NdArray(ndim, dtype, data) ==
    [kind |-> "ndarray", ndim |-> ndim, dtype |-> dtype, data |-> data]

PyList(data) == [kind |-> "list", ndim |-> 0, dtype |-> "object", data |-> data]

NpScalar(dtype, v) == [kind |-> "scalar", ndim |-> 0, dtype |-> dtype, data |-> v]

PyObject == [kind |-> "object", ndim |-> 0, dtype |-> "object", data |-> <<>>]

\* handle_nans is False, True or "safe", written "off", "on", "safe";
\* `if self.handle_nans` is its truthiness
Truthy(handle_nans) == handle_nans # "off"

\* list(mapping): the items iteration yields
ListOf(mapping) ==
    IF mapping.kind = "list" THEN mapping.data
    ELSE IF mapping.ndim = 1
         THEN [k \in 1..Len(mapping.data) |-> NpScalar(mapping.dtype, mapping.data[k])]
         ELSE [k \in 1..Len(mapping.data) |->
                  NdArray(mapping.ndim - 1, mapping.dtype, mapping.data[k])]

\* the integers that local_map[site_contents] addresses
IndicesOf(site_contents) ==
    IF site_contents.kind = "list" THEN site_contents.data
    ELSE IF site_contents.ndim = 1 THEN site_contents.data
    ELSE Concat(site_contents.data)

\* mutant of line 142: an empty site_contents writes nothing and divides
\* by nothing, leaving the row of zeros
SiteRowEmptyZero(site_contents, n_fg_sites) ==
    IF site_contents.kind \notin {"list", "ndarray"}
    THEN [err |-> "TypeError", row |-> <<>>]
    ELSE IF site_contents.kind = "ndarray" /\ site_contents.dtype # "int"
    THEN [err |-> "IndexError", row |-> <<>>]
    ELSE LET idx == IndicesOf(site_contents) IN
         IF \E k \in 1..Len(idx) : idx[k] < -n_fg_sites \/ idx[k] >= n_fg_sites
         THEN [err |-> "IndexError", row |-> <<>>]
         ELSE [err |-> "none",
               row |-> [j \in 1..n_fg_sites |->
                          IF \E k \in 1..Len(idx) : (idx[k] % n_fg_sites) + 1 = j
                          THEN <<1, Len(site_contents.data)>> ELSE Zero]]

\* one pass of the loop body (lines 141-143): the row for one cg site,
\* or the exception that ends construction
SiteRow(site_contents, n_fg_sites) ==
    IF site_contents.kind \notin {"list", "ndarray"}
    THEN [err |-> "TypeError", row |-> <<>>]             \* len() of a scalar
    ELSE IF Len(site_contents.data) = 0
    THEN [err |-> "ZeroDivisionError", row |-> <<>>]     \* 1 / len(site_contents)
    ELSE IF site_contents.kind = "ndarray" /\ site_contents.dtype # "int"
    THEN [err |-> "IndexError", row |-> <<>>]            \* float array used as index
    ELSE LET idx == IndicesOf(site_contents)
             w == Recip(Len(site_contents.data))
         IN IF \E k \in 1..Len(idx) : idx[k] < -n_fg_sites \/ idx[k] >= n_fg_sites
            THEN [err |-> "IndexError", row |-> <<>>]
            ELSE [err |-> "none",
                  row |-> [j \in 1..n_fg_sites |->
                             IF \E k \in 1..Len(idx) : (idx[k] % n_fg_sites) + 1 = j
                             THEN w ELSE Zero]]

\* the loop of lines 140-143 over the sites from position `site` on
RECURSIVE MappingMat(_, _, _)
MappingMat(items, site, n_fg_sites) ==
    IF site > Len(items) THEN [err |-> "none", M |-> <<>>]
    ELSE LET r == SiteRow(items[site], n_fg_sites) IN
         IF r.err # "none" THEN [err |-> r.err, M |-> <<>>]
         ELSE LET rest == MappingMat(items, site + 1, n_fg_sites) IN
              IF rest.err # "none" THEN rest
              ELSE [err |-> "none", M |-> <<r.row>> \o rest.M]

\* mutant of lines 122-146: a 2-d array is taken whether or not n_fg_sites
\* is given, and n_fg_sites is not required of an iterable
StandardMatrixOfUnchecked(mapping, n_fg_sites) ==
    IF mapping.kind = "ndarray" /\ mapping.ndim = 2
    THEN [err |-> "none", M |-> mapping.data]
    ELSE IF mapping.kind \in {"ndarray", "list"}
    THEN IF n_fg_sites = <<>>
         THEN [err |-> "none", M |-> <<>>]
         ELSE MappingMat(ListOf(mapping), 1, n_fg_sites[1])
    ELSE [err |-> "ValueError", M |-> <<>>]

\* lines 122-146: the standard matrix built from the arguments, or the exception
StandardMatrixOf(mapping, n_fg_sites) ==
    IF mapping.kind = "ndarray" /\ mapping.ndim = 2
    THEN IF n_fg_sites # <<>>
         THEN [err |-> "ValueError", M |-> <<>>]
         ELSE [err |-> "none", M |-> mapping.data]
    ELSE IF mapping.kind \in {"ndarray", "list"}          \* hasattr(mapping, "__iter__")
    THEN IF n_fg_sites = <<>>
         THEN [err |-> "ValueError", M |-> <<>>]
         ELSE MappingMat(ListOf(mapping), 1, n_fg_sites[1])
    ELSE [err |-> "ValueError", M |-> <<>>]

\* LinearMap.__init__: the instance, or the exception that leaves none
LinearMapInit(mapping, n_fg_sites, handle_nans, nan_check_threshold) ==
    LET sm == StandardMatrixOf(mapping, n_fg_sites) IN
    IF sm.err # "none" THEN [err |-> sm.err, inst |-> <<>>]
    ELSE IF Truthy(handle_nans) /\ ~AllFinite(sm.M)
    THEN [err |-> "ValueError", inst |-> <<>>]
    ELSE [err |-> "none",
          inst |-> <<[standard_matrix |-> sm.M,
                      handle_nans |-> handle_nans,
                      nan_check_threshold |-> nan_check_threshold]>>]

n_cg_sites(m) == Len(m.standard_matrix)
n_fg_sites(m) == Len(m.standard_matrix[1])

(***************************************************************************)
(* The arguments the model constructs maps from, and the buffers it calls  *)
(* them on.                                                                *)
(***************************************************************************)
Modes == {"off", "on", "safe"}
Thresholds == {Zero, Half}
Coefs == {Zero, Half, FNeg(Half)}

Args(mapping, n_fg, handle_nans, thr) ==
    [mapping |-> mapping, n_fg_sites |-> n_fg,
     handle_nans |-> handle_nans, nan_check_threshold |-> thr]

\* the r x c zero matrix with at most k entries overwritten by coefficients
RECURSIVE SparseMats(_, _, _, _)
SparseMats(r, c, k, vals) ==
    IF k = 0 THEN {[i \in 1..r |-> [j \in 1..c |-> Zero]]}
    ELSE LET prev == SparseMats(r, c, k - 1, vals) IN
         prev \cup {[M EXCEPT ![i][j] = v] :
                       M \in prev, i \in 1..r, j \in 1..c, v \in vals}

Matrices ==
    UNION {SparseMats(r, c, MaxNonzero, Coefs) : r \in 1..MaxCg, c \in 1..MaxFg}

\* the docstring's example: [[0,2,3],[4]] with n_fg_sites=6
ExampleMapping == PyList(<<PyList(<<0, 2, 3>>), PyList(<<4>>)>>)
ExampleNFg == <<6>>

\* np.arange(F*n*D).reshape(F, n, D): entry (f, j, d) holds its flat index
Arange(F, n, D) ==
    [f \in 1..F |-> [j \in 1..n |-> [d \in 1..D |->
        FromInt(((f - 1) * n + (j - 1)) * D + (d - 1))]]]

\* the buffer b with at most k entries overwritten by NaN
RECURSIVE WithNaNs(_, _)
WithNaNs(b, k) ==
    IF k = 0 THEN {b}
    ELSE LET prev == WithNaNs(b, k - 1) IN
         prev \cup {[a EXCEPT ![f][j][d] = NaN] :
                       a \in prev, f \in 1..NFrames(b), j \in 1..NSites(b),
                       d \in 1..NDims(b)}

\* the input buffers for a map of n fg sites: F frames of n sites, one dim
Buffers ==
    [n \in 1..MaxFg |->
        UNION {WithNaNs(Arange(F, n, 1), MaxNaNs) : F \in 1..MaxFrames}]

\* the docstring's example input: one frame, site k at (k, k, k)
ExampleBuffer == <<[j \in 1..6 |-> [d \in 1..3 |-> FromInt(j - 1)]]>>

BuffersFor(m) ==
    IF n_fg_sites(m) \in DOMAIN Buffers THEN Buffers[n_fg_sites(m)]
    ELSE IF n_fg_sites(m) = NSites(ExampleBuffer) THEN WithNaNs(ExampleBuffer, 1)
    ELSE {}

\* index lists of length at most len over -1 .. n (n itself is out of range)
IndexLists(n, len) == UNION {[1..l -> -1..n] : l \in 0..len}

\* sequences of g index lists that list at most budget indices in all
RECURSIVE GroupSeqs(_, _, _)
GroupSeqs(n, g, budget) ==
    IF g = 0 THEN {<<>>}
    ELSE UNION {LET rests == GroupSeqs(n, g - 1, budget - k) IN
                {<<PyList(l)>> \o rest : l \in [1..k -> -1..n], rest \in rests} :
                   k \in 0..budget}

Groupings(n) == UNION {GroupSeqs(n, g, MaxLen) : g \in 1..MaxCg}

\* arrays of rank 1 and rank 3 holding the entries of an index list
OddRankArrays(n) ==
    UNION {{NdArray(1, dt, l),
            NdArray(3, dt, <<<<l>>>>),
            NdArray(3, dt, <<[k \in 1..Len(l) |-> <<l[k]>>]>>)} :
              l \in IndexLists(n, MaxLen) \ {<<>>}, dt \in {"int", "float"}}

CtorMatrices ==
    UNION {SparseMats(r, c, MaxNonzero, Coefs \cup {NaN}) :
              r \in 1..MaxCg, c \in 1..MaxFg}

(***************************************************************************)
(* State machine.                                                          *)
(***************************************************************************)
Init ==
    /\ lm = <<>>
    /\ ctor_args = <<>>
    /\ ctor_err = "none"
    /\ points = <<>>
    /\ orig = <<>>
    /\ pc = "idle"
    /\ input_mask = <<>>
    /\ copybuf = <<>>
    /\ raw_result = <<>>
    /\ pushed_result = <<>>
    /\ result = <<>>
    /\ heap = <<>>
    /\ insts = <<>>
    /\ alg_pc = "start"
    /\ op = <<>>
    /\ history = <<>>
    /\ cla = <<>>
    /\ cla_args = <<>>
    /\ cla_err = "none"
    /\ invoked = <<>>
    /\ cla_call = <<>>
    /\ jcn = <<>>
    /\ jcn_log = <<>>

\* LinearMap(mapping, n_fg_sites, handle_nans, nan_check_threshold)
Construct(a) ==
    /\ ctor_args = <<>>
    /\ LET r == LinearMapInit(a.mapping, a.n_fg_sites, a.handle_nans,
                              a.nan_check_threshold)
       IN /\ lm' = r.inst
          /\ ctor_err' = r.err
    /\ ctor_args' = <<a>>
    /\ UNCHANGED <<points, orig, pc, input_mask, copybuf, raw_result,
                   pushed_result, result>>
    /\ UNCHANGED <<algvars, extvars>>

\* mutants of line 219: `self.handle_nans is True`, and the mode not consulted
NanHandlingOnOnly(self, p) == self.handle_nans = "on" /\ _has_nans(p)
NanHandlingAnyMode(self, p) == _has_nans(p)

\* line 219: nan_handling = self.handle_nans and _has_nans(points)
NanHandling(self, p) == Truthy(self.handle_nans) /\ _has_nans(p)

\* mutant of lines 222-225: the copy is never taken
CopiesInputNever(self) == FALSE

\* line 222: input_matrix is a copy of points exactly in safe mode
CopiesInput(self) == self.handle_nans = "safe"

\* mutant of line 237: the restoring write is left out
RestoreSkipped(a, mask) == a

\* line 237: input_matrix[input_mask] = np.nan
Restore(a, mask) == SetMasked(a, mask, NaN)

\* the array input_matrix names: the private copy, or the caller's buffer
InputMatrix == IF copybuf # <<>> THEN copybuf[1] ELSE points

\* input_matrix[input_mask] = v, written through to whichever array it names
WriteInput(v) ==
    IF copybuf # <<>>
    THEN /\ copybuf' = <<SetMasked(copybuf[1], input_mask, v)>>
         /\ UNCHANGED points
    ELSE /\ points' = SetMasked(points, input_mask, v)
         /\ UNCHANGED copybuf

\* __call__(points), lines 219-227 (or 219, 240 without NaN handling), as
\* it acts on the map, the buffer and its own locals
CallBody(p) ==
    /\ lm # <<>>
    /\ pc = "idle"
    /\ orig' = p
    /\ LET self == lm[1] IN
       IF NanHandling(self, p)
       THEN LET mask == isnan(p)
                zeroed == SetMasked(p, mask, Zero)
            IN /\ input_mask' = mask
               /\ IF CopiesInput(self)
                  THEN points' = p /\ copybuf' = <<zeroed>>
                  ELSE points' = zeroed /\ copybuf' = <<>>
               /\ raw_result' = <<trjdot(zeroed, self.standard_matrix)>>
               /\ pc' = "zeroed"
               /\ UNCHANGED result
       ELSE /\ points' = p
            /\ result' = <<trjdot(p, self.standard_matrix)>>
            /\ pc' = "returned"
            /\ UNCHANGED <<input_mask, copybuf, raw_result>>
    /\ UNCHANGED <<lm, ctor_args, ctor_err, pushed_result>>

\* __call__(points) called by the caller
CallBegin(p) == CallBody(p) /\ UNCHANGED <<algvars, extvars>>

\* lines 228-229
CallPush ==
    /\ pc = "zeroed"
    /\ WriteInput(MinusOne)
    /\ pushed_result' =
          <<trjdot(SetMasked(InputMatrix, input_mask, MinusOne), lm[1].standard_matrix)>>
    /\ pc' = "pushed"
    /\ UNCHANGED <<lm, ctor_args, ctor_err, orig, input_mask, raw_result, result>>
    /\ UNCHANGED <<algvars, extvars>>

\* lines 230-238
CallCheck ==
    /\ pc = "pushed"
    /\ IF ~allclose(raw_result[1], pushed_result[1], lm[1].nan_check_threshold)
       THEN /\ pc' = "raised"
            /\ UNCHANGED <<points, copybuf, result>>
       ELSE /\ IF copybuf # <<>>
               THEN copybuf' = <<Restore(copybuf[1], input_mask)>> /\ UNCHANGED points
               ELSE points' = Restore(points, input_mask) /\ UNCHANGED copybuf
            /\ result' = raw_result
            /\ pc' = "returned"
    /\ UNCHANGED <<lm, ctor_args, ctor_err, orig, input_mask, raw_result, pushed_result>>
    /\ UNCHANGED <<algvars, extvars>>

\* the caller applies the map to a buffer of matching width
Call ==
    /\ lm # <<>>
    /\ pc = "idle"
    /\ \E p \in BuffersFor(lm[1]) : CallBegin(p)

\* LinearMap(matrix, handle_nans=h, nan_check_threshold=t)
ConstructMatrix ==
    /\ ctor_args = <<>>
    /\ \E M \in Matrices, h \in Modes, t \in Thresholds :
          Construct(Args(NdArray(2, "float", M), <<>>, h, t))

\* LinearMap([[0,2,3],[4]], n_fg_sites=6, handle_nans=h, nan_check_threshold=t)
ConstructExample ==
    /\ ctor_args = <<>>
    /\ \E h \in Modes, t \in Thresholds :
          Construct(Args(ExampleMapping, ExampleNFg, h, t))

Next ==
    \/ ConstructMatrix
    \/ ConstructExample
    \/ Call
    \/ CallPush
    \/ CallCheck

Spec == Init /\ [][Next]_vars

(***************************************************************************)
(* Construction alone, over every kind of argument.                        *)
(***************************************************************************)
\* a 2-d array, with or without n_fg_sites, possibly holding NaN
ConstructArray2 ==
    /\ ctor_args = <<>>
    /\ \E M \in CtorMatrices, n \in {<<>>, <<MaxFg>>}, h \in Modes, t \in Thresholds :
          Construct(Args(NdArray(2, "float", M), n, h, t))

\* a list of index lists, with or without n_fg_sites
ConstructGrouping ==
    /\ ctor_args = <<>>
    /\ \E n \in 1..MaxFg :
          \E gs \in Groupings(n), nf \in {<<>>, <<n>>}, h \in Modes, t \in Thresholds :
             Construct(Args(PyList(gs), nf, h, t))

\* an array of rank 1 or 3, with or without n_fg_sites
ConstructOddRank ==
    /\ ctor_args = <<>>
    /\ \E n \in 1..MaxFg :
          \E arr \in OddRankArrays(n), nf \in {<<>>, <<n>>}, h \in Modes, t \in Thresholds :
             Construct(Args(arr, nf, h, t))

\* a value that is neither an array nor iterable
ConstructObject ==
    /\ ctor_args = <<>>
    /\ \E nf \in {<<>>, <<MaxFg>>}, h \in Modes, t \in Thresholds :
          Construct(Args(PyObject, nf, h, t))

NextCtor ==
    \/ ConstructArray2
    \/ ConstructGrouping
    \/ ConstructOddRank
    \/ ConstructObject
    \/ ConstructExample

SpecCtor == Init /\ [][NextCtor]_vars

(***************************************************************************)
(* Vocabulary of the properties of LinearMap.__call__.                     *)
(***************************************************************************)
Self == lm[1]
Called == lm # <<>> /\ pc # "idle"
Ended == lm # <<>> /\ pc \in {"returned", "raised"}

Positions(a) ==
    {<<f, j, d>> : f \in 1..NFrames(a), j \in 1..NSites(a), d \in 1..NDims(a)}

NaNPositions(a) == {q \in Positions(a) : IsNaN(a[q[1]][q[2]][q[3]])}

\* column j of M has coefficient 0 in every row
ZeroColumn(M, j) == \A i \in 1..Len(M) : M[i][j] = Zero

NaNsOnlyAtZeroColumns(M, a) == \A q \in NaNPositions(a) : ZeroColumn(M, q[2])

\* sum over j <= n of M[i, j] * a[f, j, d]
RECURSIVE PartialSum(_, _, _, _, _, _)
PartialSum(M, a, f, i, d, n) ==
    IF n = 0 THEN Zero
    ELSE FAdd(PartialSum(M, a, f, i, d, n - 1), FMul(M[i][n], a[f][n][d]))

\* the array out[f, i, d] = sum_j M[i, j] * a[f, j, d]
Contraction(M, a) ==
    [f \in 1..NFrames(a) |-> [i \in 1..Len(M) |-> [d \in 1..NDims(a) |->
        PartialSum(M, a, f, i, d, NSites(a))]]]

\* the array a with 0 in place of every NaN
ZeroFilled(a) ==
    [f \in 1..NFrames(a) |-> [j \in 1..NSites(a) |-> [d \in 1..NDims(a) |->
        IF IsNaN(a[f][j][d]) THEN Zero ELSE a[f][j][d]]]]

\* C1: in on mode, when the consistency check fails, the caller's buffer
\* holds its original contents as the error leaves the call.
C1_RestoredOnError ==
    (lm # <<>> /\ pc = "raised" /\ Self.handle_nans = "on") => points = orig

\* C2: in on mode, for an input whose NaNs sit only in columns that are zero
\* in every row, after the call returns the caller's buffer has NaN exactly
\* where it had NaN before and every other entry is unchanged.
C2_RestoredOnReturn ==
    (/\ lm # <<>> /\ pc = "returned" /\ Self.handle_nans = "on"
     /\ NaNsOnlyAtZeroColumns(Self.standard_matrix, orig))
    => /\ NaNPositions(points) = NaNPositions(orig)
       /\ \A q \in Positions(orig) \ NaNPositions(orig) :
             points[q[1]][q[2]][q[3]] = orig[q[1]][q[2]][q[3]]

C2_Witness ==
    /\ lm # <<>> /\ pc = "returned" /\ Self.handle_nans = "on"
    /\ NaNPositions(orig) # {}
    /\ NaNsOnlyAtZeroColumns(Self.standard_matrix, orig)
    /\ \E i \in 1..n_cg_sites(Self), j \in 1..n_fg_sites(Self) :
          Self.standard_matrix[i][j] # Zero

\* C3: with NaN handling on or safe, for an input whose NaNs sit only in
\* columns that are zero in every row, the call raises no consistency error
\* and returns the contraction of the matrix with the zero-filled input.
C3_ZeroColumnNaNs ==
    (/\ Ended /\ Truthy(Self.handle_nans)
     /\ NaNsOnlyAtZeroColumns(Self.standard_matrix, orig))
    => /\ pc = "returned"
       /\ result = <<Contraction(Self.standard_matrix, ZeroFilled(orig))>>

C3_Witness ==
    /\ Ended /\ Self.handle_nans = "safe" /\ pc = "returned"
    /\ NaNPositions(orig) # {}
    /\ NaNsOnlyAtZeroColumns(Self.standard_matrix, orig)
    /\ \E f \in 1..Len(result[1]) : \E i \in 1..Len(result[1][f]) :
          result[1][f][i][1] # Zero

\* C4: with NaN handling on or safe, when the input has a NaN at a position
\* whose column has a nonzero coefficient in some row, the call fails with
\* the consistency error (here: even at the strictest threshold, 0).
C4_RaisesOnNonzeroCoefficient ==
    (/\ Ended /\ Truthy(Self.handle_nans)
     /\ Self.nan_check_threshold = Zero
     /\ \E q \in NaNPositions(orig) : ~ZeroColumn(Self.standard_matrix, q[2]))
    => pc = "raised" /\ result = <<>>

\* C5: in safe mode the caller's buffer equals its contents before the call
\* at every point of the call and after it, returned or raised, and the
\* NaN substitution is done on a private copy.
C5_SafeNeverWrites ==
    (Called /\ Self.handle_nans = "safe")
    => /\ points = orig
       /\ pc \in {"zeroed", "pushed"} =>
             /\ copybuf # <<>>
             /\ NaNPositions(copybuf[1]) = {}

C5_Witness ==
    /\ Called /\ Self.handle_nans = "safe" /\ pc = "raised"
    /\ NaNPositions(points) # {}

\* the docstring's example result: [(5/3, 5/3, 5/3), (4, 4, 4)]
ExampleResult ==
    LET frame == << <<Rat(5, 3), Rat(5, 3), Rat(5, 3)>>,
                    <<FromInt(4), FromInt(4), FromInt(4)>> >>
    IN <<frame>>

\* C6: on an input without NaN, or with handle_nans off, the call returns
\* out[f, i, d] = sum_j M[i, j] * T[f, j, d], of shape (frames, n_cg_sites,
\* dims); mapping [[0,2,3],[4]] with n_fg_sites=6 sends the frame whose site k
\* is (k, k, k) to [(5/3, 5/3, 5/3), (4, 4, 4)].
C6_DirectContraction ==
    (Called /\ (Self.handle_nans = "off" \/ NaNPositions(orig) = {}))
    => /\ pc = "returned"
       /\ result = <<Contraction(Self.standard_matrix, orig)>>
       /\ NFrames(result[1]) = NFrames(orig)
       /\ \A f \in 1..NFrames(orig) :
             /\ Len(result[1][f]) = n_cg_sites(Self)
             /\ \A i \in 1..n_cg_sites(Self) : Len(result[1][f][i]) = NDims(orig)
       /\ (ctor_args[1].mapping = ExampleMapping /\ orig = ExampleBuffer)
             => result = <<ExampleResult>>

C6_Witness ==
    /\ Called /\ pc = "returned"
    /\ ctor_args[1].mapping = ExampleMapping /\ orig = ExampleBuffer
    /\ result = <<ExampleResult>>

(***************************************************************************)
(* Vocabulary of the properties of LinearMap construction.                 *)
(***************************************************************************)
Constructing == ctor_args # <<>>
CtorArgs == ctor_args[1]
Accepted == ctor_err = "none" /\ lm # <<>>
Rejected == ctor_err # "none" /\ lm = <<>>

\* the arguments are a list of index lists together with n_fg_sites
GroupingGiven ==
    /\ Constructing
    /\ CtorArgs.mapping.kind = "list"
    /\ CtorArgs.n_fg_sites # <<>>

\* the column a Python index k addresses in an array of length n
PyIndex(k, n) == IF k < 0 THEN k + n ELSE k

\* the fg columns (0-based) that group g lists
Listed(g, n) == {PyIndex(g.data[t], n) : t \in 1..Len(g.data)}

RECURSIVE RowSum(_)
RowSum(row) == IF row = <<>> THEN Zero ELSE FAdd(Head(row), RowSum(Tail(row)))

\* the docstring's matrix for [[0,2,3],[4]] with n_fg_sites=6
ExampleMatrix ==
    << <<Rat(1, 3), Zero, Rat(1, 3), Rat(1, 3), Zero, Zero>>,
       <<Zero, Zero, Zero, Zero, One, Zero>> >>

\* C7: a grouping of index lists with n_fg_sites yields a matrix of shape
\* (number of groups, n_fg_sites) whose row i has 1/k at each of the k indices
\* group i lists and 0 in every other column.
C7_GroupingRows ==
    (GroupingGiven /\ Accepted)
    => LET groups == CtorArgs.mapping.data
           n == CtorArgs.n_fg_sites[1]
           M == Self.standard_matrix
       IN /\ Len(M) = Len(groups)
          /\ \A i \in 1..Len(groups) :
                /\ Len(M[i]) = n
                /\ \A j \in 1..n :
                      M[i][j] = IF j - 1 \in Listed(groups[i], n)
                                THEN <<1, Len(groups[i].data)>>
                                ELSE Zero
          /\ CtorArgs.mapping = ExampleMapping => M = ExampleMatrix

C7_Witness ==
    /\ GroupingGiven /\ Accepted
    /\ Len(CtorArgs.mapping.data) = MaxCg
    /\ \E i \in 1..Len(CtorArgs.mapping.data) :
          Cardinality(Listed(CtorArgs.mapping.data[i], CtorArgs.n_fg_sites[1])) > 1

\* C8: for every grouping that construction accepts, groups that repeat an
\* index included, every row of the matrix sums to 1 (0 for an empty group).
C8_RowsSumToOne ==
    (GroupingGiven /\ Accepted)
    => \A i \in 1..Len(CtorArgs.mapping.data) :
          RowSum(Self.standard_matrix[i]) =
             IF CtorArgs.mapping.data[i].data = <<>> THEN Zero ELSE One

\* C9: construction raises ValueError and leaves no instance when (a) a 2-d
\* array comes with n_fg_sites, (b) an iterable of index collections comes
\* without n_fg_sites, (c) the mapping is neither a 2-d array nor iterable.
C9_ConstructionErrors ==
    (/\ Constructing
     /\ \/ (CtorArgs.mapping.kind = "ndarray" /\ CtorArgs.mapping.ndim = 2
            /\ CtorArgs.n_fg_sites # <<>>)
        \/ (CtorArgs.mapping.kind = "list" /\ CtorArgs.n_fg_sites = <<>>)
        \/ CtorArgs.mapping.kind = "object")
    => ctor_err = "ValueError" /\ lm = <<>>

C9_Witness ==
    /\ Constructing
    /\ CtorArgs.mapping.kind = "ndarray" /\ CtorArgs.mapping.ndim = 2
    /\ CtorArgs.n_fg_sites # <<>>
    /\ AllFinite(CtorArgs.mapping.data)
    /\ ctor_err = "ValueError" /\ lm = <<>>

\* C10: a numeric array of rank other than 2 is never accepted as a map,
\* with or without n_fg_sites.
C10_OddRankRejected ==
    (/\ Constructing
     /\ CtorArgs.mapping.kind = "ndarray" /\ CtorArgs.mapping.ndim # 2)
    => Rejected

(***************************************************************************)
(* numpy operations on rank-2 arrays, as the algebra of maps uses them.    *)
(***************************************************************************)
Shape(M) == <<Len(M), Len(M[1])>>

\* mutant of line 277: the matrix is handed on without transposing
TransposeLeftOut(M) == M

\* M.T
Transpose(M) == [j \in 1..Len(M[1]) |-> [i \in 1..Len(M) |-> M[i][j]]]

Column(M, k) == [i \in 1..Len(M) |-> M[i][k]]

\* mutant of line 285: the product is taken for any pair of shapes, reading
\* B cyclically
matmulAnyShape(A, B) ==
    [err |-> "none",
     M |-> [i \in 1..Len(A) |-> [k \in 1..Len(B[1]) |->
              dot(A[i], [j \in 1..Len(A[1]) |-> B[((j - 1) % Len(B)) + 1][k]])]]]

\* A @ B for rank-2 arrays: ValueError unless the inner dimensions agree
matmul(A, B) ==
    IF Len(A[1]) # Len(B) THEN [err |-> "ValueError", M |-> <<>>]
    ELSE [err |-> "none",
          M |-> [i \in 1..Len(A) |-> [k \in 1..Len(B[1]) |->
                   dot(A[i], Column(B, k))]]]

\* numpy broadcasting of two rank-2 shapes: each dimension agrees or is 1
Broadcastable(s, t) == \A k \in 1..2 : s[k] = t[k] \/ s[k] = 1 \/ t[k] = 1

BroadcastShape(s, t) == [k \in 1..2 |-> IF s[k] = 1 THEN t[k] ELSE s[k]]

\* the index read in a dimension of extent n when the result's index is i
BIdx(i, n) == IF n = 1 THEN 1 ELSE i

\* one entry of the binary ufunc f
Ufunc(f, x, y) == IF f = "add" THEN FAdd(x, y) ELSE FSub(x, y)

\* the binary ufunc f on two rank-2 arrays: ValueError unless they broadcast
Elementwise(f, A, B) ==
    IF ~Broadcastable(Shape(A), Shape(B)) THEN [err |-> "ValueError", M |-> <<>>]
    ELSE LET sh == BroadcastShape(Shape(A), Shape(B)) IN
         [err |-> "none",
          M |-> [i \in 1..sh[1] |-> [j \in 1..sh[2] |->
                   Ufunc(f, A[BIdx(i, Len(A))][BIdx(j, Len(A[1]))],
                            B[BIdx(i, Len(B))][BIdx(j, Len(B[1]))])]]]

\* A + B and A - B
add(A, B) == Elementwise("add", A, B)
subtract(A, B) == Elementwise("subtract", A, B)

\* c * A for a Python float c
scale(c, A) == [i \in 1..Len(A) |-> [j \in 1..Len(A[1]) |-> FMul(c, A[i][j])]]

RECURSIVE Pow2(_)
Pow2(k) == IF k = 0 THEN 1 ELSE 2 * Pow2(k - 1)

\* the e with 2^e <= n/d < 2^(e+1), for n, d > 0
RECURSIVE FloorLog2(_, _)
FloorLog2(n, d) ==
    IF n >= 2 * d THEN FloorLog2(n, 2 * d) + 1
    ELSE IF n < d THEN FloorLog2(2 * n, d) - 1
    ELSE 0

\* the float16 nearest to x (11 significant bits, ties to even, smallest
\* normal exponent -14, overflow to infinity past 65504)
RoundFloat16(x) ==
    IF ~IsFinite(x) \/ x[1] = 0 THEN x
    ELSE LET n == IAbs(x[1])
             d == x[2]
             sign == IF x[1] < 0 THEN -1 ELSE 1
             e0 == FloorLog2(n, d)
         IN IF e0 > 15 THEN <<sign, 0>>
            ELSE LET e == IF e0 < -14 THEN -14 ELSE e0
                     qn == IF e >= 10 THEN Pow2(e - 10) ELSE 1
                     qd == IF e >= 10 THEN 1 ELSE Pow2(10 - e)
                     num == n * qd
                     den == d * qn
                     fl == num \div den
                     rem == num - fl * den
                     k == IF 2 * rem > den \/ (2 * rem = den /\ fl % 2 = 1)
                          THEN fl + 1 ELSE fl
                 IN IF k * qn > 65504 * qd THEN <<sign, 0>>
                    ELSE Rat(sign * k * qn, qd)

\* one entry converted to dtype; a float64 entry is what the model's
\* values stand for
CastEntry(x, dtype) == IF dtype = "float16" THEN RoundFloat16(x) ELSE x

\* A.astype(dtype), entry by entry
CastArray(A, dtype) ==
    [i \in 1..Len(A) |-> [j \in 1..Len(A[1]) |-> CastEntry(A[i][j], dtype)]]

\* numpy's result dtype of a binary operation on two float arrays
ResultType(d1, d2) == IF d1 = d2 THEN d1 ELSE "float64"

(***************************************************************************)
(* The algebra of maps over numpy storage.  An array is a reference        *)
(* [buf, T] to a data buffer of the heap, read transposed when T holds     *)
(* (what ndarray.T returns); two references to one buffer share storage.   *)
(***************************************************************************)
Buffer(data, dtype, made_by) == [data |-> data, dtype |-> dtype, made_by |-> made_by]

Ref(buf, T) == [buf |-> buf, T |-> T]

\* the contents of the array a reference denotes, in heap h
ArrayOf(h, ref) == IF ref.T THEN Transpose(h[ref.buf].data) ELSE h[ref.buf].data

\* inst.standard_matrix, read now
MatrixOf(h, inst) == ArrayOf(h, inst.standard_matrix)

\* arr[i, j] = v through a reference
WriteThrough(h, ref, i, j, v) ==
    IF ref.T THEN [h EXCEPT ![ref.buf].data[j][i] = CastEntry(v, h[ref.buf].dtype)]
    ELSE [h EXCEPT ![ref.buf].data[i][j] = CastEntry(v, h[ref.buf].dtype)]

\* the arrays the caller built and still holds
CallerArrays(h) == {Ref(k, FALSE) : k \in {b \in 1..Len(h) : h[b].made_by = "caller"}}

\* an array value an operation hands to LinearMap(...): a view of existing
\* storage (new = FALSE, at ref) or a newly allocated array
View(ref, data, dtype) ==
    [err |-> "none", new |-> FALSE, ref |-> ref, data |-> data, dtype |-> dtype]
Fresh(data, dtype) ==
    [err |-> "none", new |-> TRUE, ref |-> Ref(0, FALSE), data |-> data, dtype |-> dtype]
Raised(err) ==
    [err |-> err, new |-> FALSE, ref |-> Ref(0, FALSE), data |-> <<>>, dtype |-> "none"]

\* mutant of lines 276-279 (and its like in each operation): the operand's
\* configuration is not passed on and the constructor's defaults apply
DeriveDefaults(self, M) ==
    LinearMapInit(NdArray(2, "float", M), <<>>, "on", <<1, 1000000>>)

\* LinearMap(mapping=M, handle_nans=self.handle_nans,
\*           nan_check_threshold=self.nan_check_threshold)
Derive(self, M) ==
    LinearMapInit(NdArray(2, "float", M), <<>>, self.handle_nans,
                  self.nan_check_threshold)

\* self.standard_matrix.T: a view of the same buffer
TArray(h, self) ==
    LET r == self.standard_matrix IN
    View(Ref(r.buf, ~r.T), Transpose(ArrayOf(h, r)), h[r.buf].dtype)

\* self.standard_matrix @ lm.standard_matrix
MatmulArray(h, self, other) ==
    LET p == matmul(MatrixOf(h, self), MatrixOf(h, other))
        dt == ResultType(h[self.standard_matrix.buf].dtype,
                         h[other.standard_matrix.buf].dtype)
    IN IF p.err # "none" THEN Raised(p.err) ELSE Fresh(CastArray(p.M, dt), dt)

\* c * self.standard_matrix
RmulArray(h, c, self) ==
    LET dt == h[self.standard_matrix.buf].dtype IN
    Fresh(CastArray(scale(c, MatrixOf(h, self)), dt), dt)

\* self.standard_matrix + lm.standard_matrix
AddArray(h, self, other) ==
    LET p == add(MatrixOf(h, self), MatrixOf(h, other))
        dt == ResultType(h[self.standard_matrix.buf].dtype,
                         h[other.standard_matrix.buf].dtype)
    IN IF p.err # "none" THEN Raised(p.err) ELSE Fresh(CastArray(p.M, dt), dt)

\* self.standard_matrix.astype(dtype, copy=copy): with copy=False and the
\* dtype already right, numpy returns the array itself
AstypeArray(h, self, dtype, copy) ==
    LET r == self.standard_matrix IN
    IF ~copy /\ h[r.buf].dtype = dtype
    THEN View(r, ArrayOf(h, r), dtype)
    ELSE Fresh(CastArray(ArrayOf(h, r), dtype), dtype)

\* a method call: its name, the instances it was applied to, its other
\* arguments, the exception it raised, the instance it returned (out) or the
\* plain value it returned (ret)
OpRec(name, self, other, arg, err, out) ==
    [name |-> name, self |-> self, other |-> other, arg |-> arg, err |-> err,
     out |-> out, ret |-> <<>>]

CallRec(name, arg, err, ret) ==
    [name |-> name, self |-> 0, other |-> 0, arg |-> arg, err |-> err,
     out |-> 0, ret |-> ret]

\* return LinearMap(mapping=arr, ...) at the end of the operation `name`
\* on insts[s] (and insts[o]), or the exception leaving it
Return(name, s, o, arg, arr) ==
    LET r == IF arr.err # "none" THEN [err |-> arr.err, inst |-> <<>>]
             ELSE Derive(insts[s], arr.data)
    IN IF r.err # "none"
       THEN /\ op' = <<OpRec(name, s, o, arg, r.err, 0)>>
            /\ UNCHANGED <<heap, insts>>
       ELSE /\ heap' = IF arr.new
                       THEN Append(heap, Buffer(arr.data, arr.dtype, "numpy"))
                       ELSE heap
            /\ insts' = Append(insts,
                  [standard_matrix |-> IF arr.new THEN Ref(Len(heap) + 1, FALSE)
                                       ELSE arr.ref,
                   handle_nans |-> r.inst[1].handle_nans,
                   nan_check_threshold |-> r.inst[1].nan_check_threshold])
            /\ op' = <<OpRec(name, s, o, arg, "none", Len(insts) + 1)>>

\* the caller's script: up to two constructions, then up to two operations
\* on one constructed map or one operation on two; one write may end it
\* before its last operation
AfterConstruction == [start |-> "one", one |-> "two"]
AfterOperation == [one |-> "derived", two |-> "done", derived |-> "done"]

\* the rank-2 pattern array of halves 0, 1/2, 1, ... in row-major order
Pattern(r, c) == [i \in 1..r |-> [j \in 1..c |-> Rat((i - 1) * c + (j - 1), 2)]]

\* the arrays the caller builds maps from: a pattern, alone or with its last
\* entry NaN
AlgMatrices ==
    UNION {{Pattern(r, c), [Pattern(r, c) EXCEPT ![r][c] = NaN]} :
              r \in 1..MaxCg, c \in 1..MaxFg}

\* the scalars of c * map; the large one is used in the script's last
\* operation only, so that no later product leaves the range of the
\* model's integers
Scalars == {Half, NaN, Inf}
LargeScalars == {FromInt(50000)}

Dtypes == {"float64", "float16"}

\* a = np.array(M); LinearMap(a, handle_nans=h, nan_check_threshold=t)
AlgConstructMatrix ==
    /\ alg_pc \in DOMAIN AfterConstruction
    /\ \E M \in AlgMatrices, h \in Modes, t \in Thresholds :
          LET r == LinearMapInit(NdArray(2, "float", M), <<>>, h, t) IN
          /\ heap' = Append(heap, Buffer(M, "float64", "caller"))
          /\ IF r.err # "none"
             THEN /\ UNCHANGED insts
                  /\ op' = <<OpRec("__init__", 0, 0, <<h, t>>, r.err, 0)>>
             ELSE /\ insts' = Append(insts,
                        [standard_matrix |-> Ref(Len(heap) + 1, FALSE),
                         handle_nans |-> r.inst[1].handle_nans,
                         nan_check_threshold |-> r.inst[1].nan_check_threshold])
                  /\ op' = <<OpRec("__init__", 0, 0, <<h, t>>, "none", Len(insts) + 1)>>
    /\ alg_pc' = AfterConstruction[alg_pc]
    /\ UNCHANGED <<extvars, lm, ctor_args, ctor_err, points, orig, pc, input_mask,
                   copybuf, raw_result, pushed_result, result>>

\* LinearMap([[n - 1]], n_fg_sites=n, handle_nans=h, nan_check_threshold=t):
\* the matrix is allocated inside the constructor
AlgConstructGrouping ==
    /\ alg_pc \in DOMAIN AfterConstruction
    /\ \E n \in 1..MaxFg, h \in Modes, t \in Thresholds :
          LET r == LinearMapInit(PyList(<<PyList(<<n - 1>>)>>), <<n>>, h, t) IN
          /\ r.err = "none"
          /\ heap' = Append(heap, Buffer(r.inst[1].standard_matrix, "float64",
                                         "LinearMap"))
          /\ insts' = Append(insts,
                [standard_matrix |-> Ref(Len(heap) + 1, FALSE),
                 handle_nans |-> r.inst[1].handle_nans,
                 nan_check_threshold |-> r.inst[1].nan_check_threshold])
          /\ op' = <<OpRec("__init__", 0, 0, <<h, t>>, "none", Len(insts) + 1)>>
    /\ alg_pc' = AfterConstruction[alg_pc]
    /\ UNCHANGED <<extvars, lm, ctor_args, ctor_err, points, orig, pc, input_mask,
                   copybuf, raw_result, pushed_result, result>>

Operating == alg_pc \in DOMAIN AfterOperation /\ insts # <<>>

\* insts[s].T
OpT ==
    /\ Operating
    /\ \E s \in 1..Len(insts) : Return("T", s, 0, <<>>, TArray(heap, insts[s]))
    /\ alg_pc' = AfterOperation[alg_pc]
    /\ UNCHANGED <<extvars, lm, ctor_args, ctor_err, points, orig, pc, input_mask,
                   copybuf, raw_result, pushed_result, result>>

\* insts[s] @ insts[o]
OpMatmul ==
    /\ Operating
    /\ \E s \in 1..Len(insts), o \in 1..Len(insts) :
          Return("__matmul__", s, o, <<>>, MatmulArray(heap, insts[s], insts[o]))
    /\ alg_pc' = AfterOperation[alg_pc]
    /\ UNCHANGED <<extvars, lm, ctor_args, ctor_err, points, orig, pc, input_mask,
                   copybuf, raw_result, pushed_result, result>>

\* c * insts[s]
OpRmul ==
    /\ Operating
    /\ \E s \in 1..Len(insts),
          c \in IF AfterOperation[alg_pc] = "done" THEN Scalars \cup LargeScalars
                ELSE Scalars :
          Return("__rmul__", s, 0, <<c>>, RmulArray(heap, c, insts[s]))
    /\ alg_pc' = AfterOperation[alg_pc]
    /\ UNCHANGED <<extvars, lm, ctor_args, ctor_err, points, orig, pc, input_mask,
                   copybuf, raw_result, pushed_result, result>>

\* insts[s] + insts[o]
OpAdd ==
    /\ Operating
    /\ \E s \in 1..Len(insts), o \in 1..Len(insts) :
          Return("__add__", s, o, <<>>, AddArray(heap, insts[s], insts[o]))
    /\ alg_pc' = AfterOperation[alg_pc]
    /\ UNCHANGED <<extvars, lm, ctor_args, ctor_err, points, orig, pc, input_mask,
                   copybuf, raw_result, pushed_result, result>>

\* insts[s].astype(dtype, copy=copy)
OpAstype ==
    /\ Operating
    /\ \E s \in 1..Len(insts), dtype \in Dtypes, copy \in BOOLEAN :
          Return("astype", s, 0, <<dtype, copy>>,
                 AstypeArray(heap, insts[s], dtype, copy))
    /\ alg_pc' = AfterOperation[alg_pc]
    /\ UNCHANGED <<extvars, lm, ctor_args, ctor_err, points, orig, pc, input_mask,
                   copybuf, raw_result, pushed_result, result>>

\* the caller writes one entry, a[i, j] = -1 on an array it built or
\* insts[s].standard_matrix[i, j] = -1 (s = 0 names the caller's array)
Write ==
    /\ alg_pc \in {"one", "two", "derived"}
    /\ \E s \in 0..Len(insts) :
          \E ref \in IF s = 0 THEN CallerArrays(heap) ELSE {insts[s].standard_matrix} :
             \E i \in 1..Len(ArrayOf(heap, ref)) :
                \E j \in 1..Len(ArrayOf(heap, ref)[1]) :
                   /\ heap' = WriteThrough(heap, ref, i, j, MinusOne)
                   /\ op' = <<OpRec("write", s, 0, <<ref, i, j>>, "none", 0)>>
    /\ alg_pc' = "written"
    /\ UNCHANGED <<extvars, lm, ctor_args, ctor_err, points, orig, pc, input_mask,
                   copybuf, raw_result, pushed_result, result, insts>>

NextAlgebra ==
    \/ AlgConstructMatrix
    \/ AlgConstructGrouping
    \/ OpT
    \/ OpMatmul
    \/ OpRmul
    \/ OpAdd
    \/ OpAstype
    \/ Write

SpecAlgebra == Init /\ [][NextAlgebra]_vars

(***************************************************************************)
(* Introspection: participating_fg and close_to_identity on the map lm.    *)
(***************************************************************************)
\* x > y; false when either is NaN
FGt(x, y) == ~IsNaN(x) /\ ~IsNaN(y) /\ ~FLe(x, y)

\* mutant of line 178: the test is for a nonzero coefficient
IncMatrixNonzero(M) ==
    [i \in 1..Len(M) |-> [j \in 1..Len(M[1]) |-> M[i][j] # Zero]]

\* line 178: inc_matrix = self.standard_matrix > 0
IncMatrix(M) ==
    [i \in 1..Len(M) |-> [j \in 1..Len(M[1]) |-> FGt(M[i][j], Zero)]]

\* list(zip(*np.nonzero(inc))): the (row, column) pairs of the true entries
\* from flat position k on, in row-major order, 0-based
RECURSIVE NonzeroPairs(_, _)
NonzeroPairs(inc, k) ==
    LET c == Len(inc[1])
        i == ((k - 1) \div c) + 1
        j == ((k - 1) % c) + 1
    IN IF k > Len(inc) * c THEN <<>>
       ELSE (IF inc[i][j] THEN <<(<<i - 1, j - 1>>)>> ELSE <<>>)
            \o NonzeroPairs(inc, k + 1)

\* lines 183-184: table[cg_ind].append(fg_ind) for each pair in turn
RECURSIVE AppendPairs(_, _)
AppendPairs(table, pairs) ==
    IF pairs = <<>> THEN table
    ELSE LET cg_ind == Head(pairs)[1]
             fg_ind == Head(pairs)[2]
         IN AppendPairs([table EXCEPT ![cg_ind + 1] = Append(@, fg_ind)], Tail(pairs))

\* LinearMap.participating_fg
participating_fg(self) ==
    LET inc_matrix == IncMatrix(self.standard_matrix)
        ind_form == NonzeroPairs(inc_matrix, 1)
        table == [cg \in 1..n_cg_sites(self) |-> <<>>]
    IN AppendPairs(table, ind_form)

\* np.identity(n)
Identity(n) == [i \in 1..n |-> [j \in 1..n |-> IF i = j THEN One ELSE Zero]]

\* (D ** 2).sum()
SumSquares(D) ==
    LET flat == Concat(D) IN dot(flat, flat)

\* s ** 0.5 > t for a sum of squares s: the root of NaN is NaN, which
\* exceeds nothing; a root is never below zero
RootExceeds(s, t) ==
    IF IsNaN(s) \/ IsNaN(t) THEN FALSE
    ELSE IF FGt(Zero, t) THEN TRUE
    ELSE FGt(s, FMul(t, t))

\* LinearMap.close_to_identity(threshold): the value returned, or the
\* exception raised by the subtraction when the shapes do not broadcast
close_to_identity(self, threshold) ==
    LET internal_shape == Shape(self.standard_matrix) IN
    IF internal_shape[1] # internal_shape[1]
    THEN [err |-> "none", ret |-> <<FALSE>>]
    ELSE LET ident_like == Identity(internal_shape[1])
             diff == subtract(ident_like, self.standard_matrix)
         IN IF diff.err # "none" THEN [err |-> diff.err, ret |-> <<>>]
            ELSE IF RootExceeds(SumSquares(diff.M), threshold)
            THEN [err |-> "none", ret |-> <<FALSE>>]
            ELSE [err |-> "none", ret |-> <<TRUE>>]

\* the matrices introspected: up to MaxNonzero entries of a zero matrix
\* overwritten by 1, 1/2, -1/2 or NaN
IntroMatrices ==
    UNION {SparseMats(r, c, MaxNonzero, {One, Half, FNeg(Half), NaN}) :
              r \in 1..MaxCg, c \in 1..MaxFg}

\* LinearMap(matrix, handle_nans=h, nan_check_threshold=t)
ConstructIntro ==
    /\ ctor_args = <<>>
    /\ \E M \in IntroMatrices, h \in Modes, t \in Thresholds :
          Construct(Args(NdArray(2, "float", M), <<>>, h, t))

\* lm.participating_fg
ParticipatingFg ==
    /\ lm # <<>>
    /\ op = <<>>
    /\ op' = <<CallRec("participating_fg", <<>>, "none", <<participating_fg(lm[1])>>)>>
    /\ UNCHANGED <<extvars, lm, ctor_args, ctor_err, points, orig, pc, input_mask,
                   copybuf, raw_result, pushed_result, result, heap, insts, alg_pc>>

\* lm.close_to_identity(threshold)
CloseToIdentity ==
    /\ lm # <<>>
    /\ op = <<>>
    /\ \E threshold \in Thresholds :
          LET r == close_to_identity(lm[1], threshold) IN
          op' = <<CallRec("close_to_identity", <<threshold>>, r.err, r.ret)>>
    /\ UNCHANGED <<extvars, lm, ctor_args, ctor_err, points, orig, pc, input_mask,
                   copybuf, raw_result, pushed_result, result, heap, insts, alg_pc>>

NextIntro ==
    \/ ConstructIntro
    \/ ConstructExample
    \/ ParticipatingFg
    \/ CloseToIdentity

SpecIntro == Init /\ [][NextIntro]_vars

(***************************************************************************)
(* flat_call on the map lm.  A flat input is [shape, data], data holding   *)
(* the entries in row-major (C) order.                                     *)
(***************************************************************************)
n_dim == 3

RECURSIVE Prod(_)
Prod(shape) == IF shape = <<>> THEN 1 ELSE Head(shape) * Prod(Tail(shape))

\* mutant of lines 265-267: the entries are regrouped in column-major order
reshapeFortran(data, F, n, D) ==
    [f \in 1..F |-> [j \in 1..n |-> [d \in 1..D |->
        data[(f - 1) + F * ((j - 1) + n * (d - 1)) + 1]]]]

\* the rank-3 array of shape (F, n, D) holding data in row-major order
reshape(data, F, n, D) ==
    [f \in 1..F |-> [j \in 1..n |-> [d \in 1..D |->
        data[((f - 1) * n + (j - 1)) * D + d]]]]

\* lines 257-267 of flat_call: the rank-3 array handed to __call__, or the
\* exception raised before it
flat_call_reshaped(flattened) ==
    LET shape == flattened.shape IN
    IF Len(shape) = 3 THEN [err |-> "ValueError", reshaped |-> <<>>]
    ELSE IF Len(shape) < 2
    THEN [err |-> "IndexError", reshaped |-> <<>>]              \* flattened.shape[1]
    ELSE IF shape[2] % n_dim # 0 THEN [err |-> "ValueError", reshaped |-> <<>>]
    ELSE IF Prod(shape) # shape[1] * (shape[2] \div n_dim) * n_dim
    THEN [err |-> "ValueError", reshaped |-> <<>>]              \* reshape: sizes differ
    ELSE [err |-> "none",
          reshaped |-> reshape(flattened.data, shape[1], shape[2] \div n_dim, n_dim)]

\* lines 269-271: transformed.reshape((shape[0], shape[1] * shape[2]))
flat_call_result(transformed) ==
    [f \in 1..Len(transformed) |-> Concat(transformed[f])]

\* LinearMap.__call__(points) from entry to exit (lines 219-240): the
\* exception or the value returned, and the contents of the caller's buffer
\* as the call leaves it
__call__(self, p) ==
    IF NanHandling(self, p)
    THEN LET mask == isnan(p)
             zeroed == SetMasked(p, mask, Zero)
             pushed == SetMasked(zeroed, mask, MinusOne)
             raw_res == trjdot(zeroed, self.standard_matrix)
             pushed_res == trjdot(pushed, self.standard_matrix)
         IN IF ~allclose(raw_res, pushed_res, self.nan_check_threshold)
            THEN [err |-> "ValueError", ret |-> <<>>,
                  buffer |-> IF CopiesInput(self) THEN p ELSE pushed]
            ELSE [err |-> "none", ret |-> <<raw_res>>,
                  buffer |-> IF CopiesInput(self) THEN p ELSE Restore(pushed, mask)]
    ELSE [err |-> "none", ret |-> <<trjdot(p, self.standard_matrix)>>, buffer |-> p]

\* the maps flat_call is applied to: at most one nonzero coefficient
FlatMatrices ==
    UNION {SparseMats(r, c, 1, Coefs) : r \in 1..MaxCg, c \in 1..MaxFg}

\* np.arange(k), and the same with at most one entry NaN
FlatArange(k) == [i \in 1..k |-> FromInt(i - 1)]
WithOneNaN(s) == {s} \cup {[s EXCEPT ![i] = NaN] : i \in 1..Len(s)}

FlatArray(shape) == [shape |-> shape, data |-> FlatArange(Prod(shape))]

\* the inputs given to flat_call of a map of n fg sites: rank 2 of width
\* 3n, rank 2 of widths not divisible by 3, and ranks 1, 3 and 4
FlatInputs(n) ==
    UNION {{[shape |-> <<F, n_dim * n>>, data |-> d] :
               d \in WithOneNaN(FlatArange(F * n_dim * n))}
           \cup {FlatArray(<<F, n_dim * n - 1>>), FlatArray(<<F, n_dim * n + 1>>),
                 FlatArray(<<F, n, n_dim>>), FlatArray(<<F * n_dim * n>>),
                 FlatArray(<<F, n_dim * n, 1, 1>>), FlatArray(<<F, n, n_dim, 1>>)} :
             F \in 1..MaxFrames}

\* LinearMap(matrix, handle_nans=h, nan_check_threshold=t)
ConstructFlat ==
    /\ ctor_args = <<>>
    /\ \E M \in FlatMatrices, h \in Modes, t \in Thresholds :
          Construct(Args(NdArray(2, "float", M), <<>>, h, t))

\* lm.flat_call(x) up to its call of self(reshaped): an exception leaves
\* it, or __call__ is entered on the reshaped view of the caller's buffer
FlatCall ==
    /\ lm # <<>>
    /\ pc = "idle"
    /\ op = <<>>
    /\ \E x \in FlatInputs(n_fg_sites(lm[1])) :
          LET c == flat_call_reshaped(x) IN
          IF c.err # "none"
          THEN /\ op' = <<CallRec("flat_call", <<x>>, c.err, <<>>)>>
               /\ UNCHANGED <<lm, ctor_args, ctor_err, points, orig, pc, input_mask,
                              copybuf, raw_result, pushed_result, result>>
          ELSE /\ op' = <<CallRec("flat_call", <<x>>, "pending", <<>>)>>
               /\ CallBody(c.reshaped)
    /\ UNCHANGED <<heap, insts, alg_pc, extvars>>

\* __call__ has ended inside flat_call: its exception leaves flat_call, or
\* its result is reshaped and returned (lines 268-271)
FlatReturn ==
    /\ op # <<>>
    /\ op[1].name = "flat_call" /\ op[1].err = "pending"
    /\ pc \in {"returned", "raised"}
    /\ op' = IF pc = "raised"
             THEN <<CallRec("flat_call", op[1].arg, "ValueError", <<>>)>>
             ELSE <<CallRec("flat_call", op[1].arg, "none",
                            <<flat_call_result(result[1])>>)>>
    /\ UNCHANGED <<extvars, lm, ctor_args, ctor_err, points, orig, pc, input_mask,
                   copybuf, raw_result, pushed_result, result, heap, insts, alg_pc>>

NextFlat ==
    \/ ConstructFlat
    \/ ConstructExample
    \/ FlatCall
    \/ CallPush
    \/ CallCheck
    \/ FlatReturn

SpecFlat == Init /\ [][NextFlat]_vars

(***************************************************************************)
(* Vocabulary of the properties of the algebra.                            *)
(***************************************************************************)
Op == op[1]
Operated == op # <<>> /\ Op.name \in {"T", "__matmul__", "__rmul__", "__add__", "astype"}
Built == op # <<>> /\ Op.name = "__init__"
Returned == op # <<>> /\ Op.out # 0
Out == insts[Op.out]
Left == insts[Op.self]
Right == insts[Op.other]

\* no entry of M is NaN or an infinity
EveryEntryFinite(M) == \A i \in 1..Len(M) : \A j \in 1..Len(M[i]) : M[i][j][2] # 0

Refused == Op.err = "ValueError" /\ Op.out = 0

\* C11: a map created with handle_nans on or safe, by the constructor or by
\* T, @, c *, + or astype, has every entry finite when it is created; a
\* construction or operation under on or safe whose matrix holds NaN or Inf
\* (a non-finite array, a non-finite right operand, a non-finite scalar)
\* raises ValueError and returns no map; under off nothing is checked, and
\* construction, T, c * and astype always return a map.
C11_FiniteWhenChecked ==
    /\ (Returned /\ Truthy(Out.handle_nans)) => EveryEntryFinite(MatrixOf(heap, Out))
    /\ (Built /\ Truthy(Op.arg[1]) /\ ~EveryEntryFinite(heap[Len(heap)].data))
          => Refused
    /\ (Operated /\ Op.name \in {"__matmul__", "__add__"} /\ Truthy(Left.handle_nans)
        /\ ~EveryEntryFinite(MatrixOf(heap, Right))) => Refused
    /\ (Operated /\ Op.name = "__rmul__" /\ Truthy(Left.handle_nans)
        /\ Op.arg[1][2] = 0) => Refused
    /\ (Built /\ ~Truthy(Op.arg[1])) => Returned
    /\ (Operated /\ Op.name \in {"T", "__rmul__", "astype"}
        /\ ~Truthy(Left.handle_nans)) => Returned

\* an addition by a map with handle_nans on to a map holding NaN is refused
C11_Witness ==
    /\ Operated /\ Op.name = "__add__"
    /\ Left.handle_nans = "on" /\ EveryEntryFinite(MatrixOf(heap, Left))
    /\ ~EveryEntryFinite(MatrixOf(heap, Right))
    /\ Shape(MatrixOf(heap, Left)) = Shape(MatrixOf(heap, Right))
    /\ Refused

\* a step of the script that is one algebraic operation
OperationStep == alg_pc' # alg_pc /\ alg_pc' \in {"derived", "done"}

\* C12: every T, @, c *, + and astype leaves each existing instance's matrix,
\* handle_nans and nan_check_threshold as they were, and when it returns, the
\* map it returns is an instance that did not exist before and carries the
\* handle_nans and nan_check_threshold of the left operand (self), whatever
\* the right operand's are.
C12_NewInstanceLeftConfig ==
    [][OperationStep =>
         /\ \A k \in 1..Len(insts) :
               /\ insts'[k] = insts[k]
               /\ MatrixOf(heap', insts'[k]) = MatrixOf(heap, insts[k])
         /\ op'[1].out # 0 =>
               /\ op'[1].out \notin 1..Len(insts)
               /\ op'[1].out \in 1..Len(insts')
               /\ insts'[op'[1].out].handle_nans = insts[op'[1].self].handle_nans
               /\ insts'[op'[1].out].nan_check_threshold
                     = insts[op'[1].self].nan_check_threshold]_vars

\* a sum has been returned whose operands differ in both settings
C12_Witness ==
    /\ Operated /\ Op.name = "__add__" /\ Returned
    /\ Left.handle_nans # Right.handle_nans
    /\ Left.nan_check_threshold # Right.nan_check_threshold
    /\ Out.handle_nans = Left.handle_nans
    /\ Out.nan_check_threshold = Left.nan_check_threshold

\* a step of the script that is the caller's write
WriteStep == alg_pc' = "written" /\ alg_pc # "written"

\* no map so far came from astype with copy=False
NoUncopiedCast == ~(op # <<>> /\ Op.name = "astype" /\ Op.out # 0 /\ ~Op.arg[2])

\* C13: when no map came from astype with copy=False, a write to an array
\* the caller built, or to one instance's standard_matrix, changes the matrix
\* seen through no other instance.
C13_NoSharedStorage ==
    [][(WriteStep /\ NoUncopiedCast) =>
          \A k \in 1..Len(insts) :
             k # op'[1].self => MatrixOf(heap', insts[k]) = MatrixOf(heap, insts[k])]_vars

(***************************************************************************)
(* Vocabulary of the properties of introspection.                          *)
(***************************************************************************)
Asked(name) == lm # <<>> /\ op # <<>> /\ Op.name = name
SelfMatrix == lm[1].standard_matrix
Square(M) == Len(M) = Len(M[1])

\* the squared Frobenius distance of a square matrix to the identity
RECURSIVE DistSqFrom(_, _)
DistSqFrom(M, k) ==
    LET n == Len(M)
        i == ((k - 1) \div n) + 1
        j == ((k - 1) % n) + 1
        e == FSub(IF i = j THEN One ELSE Zero, M[i][j])
    IN IF k > n * n THEN Zero ELSE FAdd(FMul(e, e), DistSqFrom(M, k + 1))

\* square, and at Frobenius distance at most t >= 0 from the identity
NearIdentity(M, t) == Square(M) /\ FLe(DistSqFrom(M, 1), FMul(t, t))

\* C14: close_to_identity(threshold) never raises and returns true exactly
\* when the matrix is square and its Frobenius distance to the identity is
\* at most threshold; so it returns false for every non-square matrix.
C14_CloseToIdentity ==
    Asked("close_to_identity") =>
        /\ Op.err = "none"
        /\ Op.ret = <<NearIdentity(SelfMatrix, Op.arg[1])>>

\* C15: A + B returns the map of the element-wise sum when the two matrices
\* have the same shape, and for every pair of different shapes raises
\* ValueError and returns no map.
C15_AddSameShapeOnly ==
    (Operated /\ Op.name = "__add__") =>
        IF Shape(MatrixOf(heap, Left)) = Shape(MatrixOf(heap, Right))
        THEN Returned =>
                \A i \in 1..Len(MatrixOf(heap, Out)) :
                   \A j \in 1..Len(MatrixOf(heap, Out)[1]) :
                      MatrixOf(heap, Out)[i][j]
                         = FAdd(MatrixOf(heap, Left)[i][j], MatrixOf(heap, Right)[i][j])
        ELSE Refused

\* sum over j <= n of A[i, j] * B[j, k]
RECURSIVE ProductEntry(_, _, _, _, _)
ProductEntry(A, B, i, k, n) ==
    IF n = 0 THEN Zero
    ELSE FAdd(ProductEntry(A, B, i, k, n - 1), FMul(A[i][n], B[n][k]))

\* the matrix product A.B of a p x q and a q x r matrix
Product(A, B) ==
    [i \in 1..Len(A) |-> [k \in 1..Len(B[1]) |-> ProductEntry(A, B, i, k, Len(B))]]

Composable(A, B) == Len(A[1]) = Len(B)

\* the matrices of the maps the script's last operation can be given,
\* whose finite entries are halves of small numerator (the triple products
\* of larger ones leave the range of the model's integers)
MatricesHeld ==
    {M \in {MatrixOf(heap, insts[k]) : k \in IF Operating THEN 1..Len(insts) ELSE {}} :
        \A i \in 1..Len(M) : \A j \in 1..Len(M[1]) :
           IsFinite(M[i][j]) => (IAbs(M[i][j][1]) < 10 /\ M[i][j][2] <= 2)}

\* A @ B is refused when the inner dimensions differ, and otherwise returns
\* the map of the product, with A's rows and B's columns
ComposeReturnsProduct ==
    (Operated /\ Op.name = "__matmul__") =>
        IF Composable(MatrixOf(heap, Left), MatrixOf(heap, Right))
        THEN Returned =>
                /\ MatrixOf(heap, Out) = Product(MatrixOf(heap, Left), MatrixOf(heap, Right))
                /\ Len(MatrixOf(heap, Out)) = Len(MatrixOf(heap, Left))
                /\ Len(MatrixOf(heap, Out)[1]) = Len(MatrixOf(heap, Right)[1])
        ELSE Refused

\* (A @ B) @ C and A @ (B @ C), as @ computes them, have equal matrices
Associative(A, B, C) ==
    /\ matmul(A, B).err = "none" /\ matmul(B, C).err = "none"
    /\ matmul(matmul(A, B).M, C) = matmul(A, matmul(B, C).M)

IsTransposeOf(N, M) ==
    /\ Len(N) = Len(M[1]) /\ Len(N[1]) = Len(M)
    /\ \A i \in 1..Len(M) : \A j \in 1..Len(M[1]) : N[j][i] = M[i][j]

\* C17: A.T returns a map whose matrix is the transpose of A's, n_cg_sites
\* and n_fg_sites swapped; and when A is itself B.T, just returned, A.T has
\* B's matrix entry for entry and B's handle_nans and nan_check_threshold.
C17_TransposeInvolution ==
    [][(OperationStep /\ op'[1].name = "T") =>
          /\ op'[1].out # 0
          /\ IsTransposeOf(MatrixOf(heap', insts'[op'[1].out]),
                           MatrixOf(heap, insts[op'[1].self]))
          /\ (op # <<>> /\ op[1].name = "T" /\ op[1].out = op'[1].self) =>
                /\ MatrixOf(heap', insts'[op'[1].out]) = MatrixOf(heap, insts[op[1].self])
                /\ insts'[op'[1].out].handle_nans = insts[op[1].self].handle_nans
                /\ insts'[op'[1].out].nan_check_threshold
                      = insts[op[1].self].nan_check_threshold]_vars

\* A.T.T has been returned for a 1 x 2 map A that is not zero
C17_Witness ==
    /\ Operated /\ Op.name = "T" /\ Returned
    /\ Len(insts) = 3 /\ Op.self = 2 /\ Op.out = 3
    /\ Shape(MatrixOf(heap, insts[1])) = <<1, 2>>
    /\ IsTransposeOf(MatrixOf(heap, insts[2]), MatrixOf(heap, insts[1]))
    /\ MatrixOf(heap, insts[3]) = MatrixOf(heap, insts[1])
    /\ MatrixOf(heap, insts[1])[1][2] = Half

Table == Op.ret[1]

\* C18: participating_fg returns one list per cg row; list i holds exactly
\* the 0-based columns j whose coefficient in row i is greater than 0 (zero,
\* negative and NaN coefficients left out), each once, in ascending order;
\* a row with no positive coefficient gives the empty list.
C18_ParticipatingFg ==
    Asked("participating_fg") =>
        /\ Len(Table) = Len(SelfMatrix)
        /\ \A i \in 1..Len(SelfMatrix) :
              /\ {Table[i][k] : k \in 1..Len(Table[i])}
                    = {j - 1 : j \in {c \in 1..Len(SelfMatrix[i]) : SelfMatrix[i][c][1] > 0}}
              /\ \A k \in 1..(Len(Table[i]) - 1) : Table[i][k] < Table[i][k + 1]

\* the table of a 2 x 2 map whose first row holds a negative coefficient and
\* none positive, and whose second row has its positive coefficient last
C18_Witness ==
    /\ Asked("participating_fg")
    /\ Shape(SelfMatrix) = <<2, 2>>
    /\ SelfMatrix[1][1] = FNeg(Half)
    /\ Table = << <<>>, <<1>> >>

(***************************************************************************)
(* Vocabulary of the properties of flat_call.                              *)
(***************************************************************************)
FlatEnded == Asked("flat_call") /\ Op.err # "pending"
FlatInput == Op.arg[1]
Rank(x) == Len(x.shape)

\* C19: flat_call of an input whose rank is not 2, or of rank 2 and a width
\* not divisible by 3, raises an exception without entering __call__ and
\* returns nothing.
C19_FlatCallRejects ==
    (/\ Asked("flat_call")
     /\ \/ Rank(FlatInput) # 2
        \/ FlatInput.shape[2] % 3 # 0)
    => (Op.err \in {"ValueError", "IndexError"} /\ Op.ret = <<>> /\ pc = "idle")

\* the entries of a rank-3 array in row-major order
Flattened(a) == Concat(Concat(a))

\* a rank-2 input of shape (frames, 3 * n_fg_sites)
WellShaped(x) == Rank(x) = 2 /\ x.shape[2] = 3 * Len(SelfMatrix[1])

\* entry (f, 3 i + d) of the rank-2 array r is entry (f, i, d) of the
\* rank-3 array a
IsRowMajorOf(r, a) ==
    /\ Len(r) = Len(a)
    /\ \A f \in 1..Len(a) :
          /\ Len(r[f]) = 3 * Len(a[f])
          /\ \A i \in 1..Len(a[f]) : \A d \in 1..3 : r[f][3 * (i - 1) + d] = a[f][i][d]

\* the rank-3 array whose entry (f, j, d) is entry (f, 3 j + d) of x
Unflattened(x) ==
    [f \in 1..x.shape[1] |-> [j \in 1..(x.shape[2] \div 3) |-> [d \in 1..3 |->
        x.data[(f - 1) * x.shape[2] + 3 * (j - 1) + d]]]]

\* C20: for a rank-2 input x of shape (frames, 3 * n_fg_sites), flat_call(x)
\* ends as __call__ does on x regrouped to (frames, n_fg_sites, 3): it
\* raises when __call__ raises, otherwise returns __call__'s result laid
\* out row-major as (frames, 3 * n_cg_sites), and it leaves the caller's
\* buffer holding what __call__ leaves in it.
C20_FlatCallWraps ==
    (FlatEnded /\ WellShaped(FlatInput)) =>
        LET direct == __call__(Self, Unflattened(FlatInput)) IN
        /\ Op.err = direct.err
        /\ IF direct.err = "none"
           THEN /\ Op.ret # <<>>
                /\ IsRowMajorOf(Op.ret[1], direct.ret[1])
                /\ Len(Op.ret[1][1]) = 3 * Len(SelfMatrix)
           ELSE Op.ret = <<>>
        /\ Flattened(points) = Flattened(direct.buffer)

\* flat_call has returned for an input with a NaN, given to a map with
\* handle_nans on that has two cg sites and a nonzero coefficient
C20_Witness ==
    /\ FlatEnded /\ WellShaped(FlatInput)
    /\ Self.handle_nans = "on" /\ Len(SelfMatrix) = 2
    /\ \E i \in 1..2 : \E j \in 1..Len(SelfMatrix[1]) : SelfMatrix[i][j] # Zero
    /\ \E k \in 1..Len(FlatInput.data) : IsNaN(FlatInput.data[k])
    /\ Op.err = "none" /\ Op.ret # <<>>

\* __call__ as a function agrees with __call__ as the caller's steps
CallAgrees ==
    Ended =>
        LET direct == __call__(Self, orig) IN
        /\ (pc = "raised") = (direct.err # "none")
        /\ (pc = "returned") => result = direct.ret
        /\ points = direct.buffer

(***************************************************************************)
(* Empty groups in the grouping path.                                      *)
(***************************************************************************)
\* the positions of the groups that list no index
EmptyGroups == {i \in 1..Len(CtorArgs.mapping.data) : CtorArgs.mapping.data[i].data = <<>>}

\* every index group g lists addresses a column of an array of length n
InRange(g, n) == \A t \in 1..Len(g.data) : g.data[t] >= -n /\ g.data[t] < n

\* the loop reaches group i: every group before it was written
LoopReaches(i) ==
    \A k \in 1..(i - 1) :
        /\ CtorArgs.mapping.data[k].data # <<>>
        /\ InRange(CtorArgs.mapping.data[k], CtorArgs.n_fg_sites[1])

\* C28: a grouping with n_fg_sites in which some group is empty never yields
\* an instance (so no map with an all-zero row comes of it): construction
\* ends in an exception, the ZeroDivisionError of 1 / len(site_contents)
\* whenever the loop reaches an empty group.
C28_EmptyGroupAborts ==
    (GroupingGiven /\ EmptyGroups # {})
    => /\ Rejected
       /\ \A i \in EmptyGroups : LoopReaches(i) => ctor_err = "ZeroDivisionError"

C28_Witness ==
    /\ GroupingGiven
    /\ Len(CtorArgs.mapping.data) = MaxCg
    /\ CtorArgs.mapping.data[1].data # <<>>
    /\ CtorArgs.mapping.data[MaxCg].data = <<>>
    /\ ctor_err = "ZeroDivisionError"
    /\ lm = <<>>

(***************************************************************************)
(* LinearMap.__call__ without NaN handling.                                *)
(***************************************************************************)
\* slice (f, d) of the array a holds a NaN at some site
NaNInSlice(a, f, d) == \E j \in 1..NSites(a) : IsNaN(a[f][j][d])

\* C26: when handle_nans is off (whatever the input holds) or the input has
\* no NaN (whatever the mode), __call__ writes nothing to the caller's
\* buffer, builds no mask and no copy, cannot raise the consistency error,
\* and returns the plain contraction, in which every output entry of a
\* slice that holds a NaN is NaN.
C26_NoWriteWithoutHandling ==
    (Called /\ (Self.handle_nans = "off" \/ NaNPositions(orig) = {}))
    => /\ points = orig
       /\ input_mask = <<>> /\ copybuf = <<>>
       /\ raw_result = <<>> /\ pushed_result = <<>>
       /\ pc = "returned"
       /\ result = <<trjdot(orig, Self.standard_matrix)>>
       /\ \A f \in 1..NFrames(orig) : \A d \in 1..NDims(orig) :
             NaNInSlice(orig, f, d)
             => \A i \in 1..n_cg_sites(Self) : IsNaN(result[1][f][i][d])

C26_Witness ==
    /\ Called /\ Self.handle_nans = "off"
    /\ NaNPositions(orig) # {}
    /\ pc = "returned" /\ points = orig
    /\ \E f \in 1..NFrames(orig) : \E d \in 1..NDims(orig) :
          NaNInSlice(orig, f, d) /\ IsNaN(result[1][f][1][d])

(***************************************************************************)
(* Repeated calls of one map on one buffer.                                *)
(***************************************************************************)
\* what the caller sees of a call that has returned: the buffer as it was
\* handed over and as it came back, the result, and whether lines 220-238
\* (the NaN handling) ran
ReturnedCall ==
    [before |-> orig, after |-> points, result |-> result[1],
     handled |-> input_mask # <<>>]

\* LinearMap(matrix, handle_nans=True, nan_check_threshold=t)
ConstructOn ==
    /\ ctor_args = <<>>
    /\ \E M \in Matrices, t \in Thresholds :
          Construct(Args(NdArray(2, "float", M), <<>>, "on", t))

\* the first call of the map
FirstCall ==
    /\ history = <<>>
    /\ Call

\* __call__ has returned: its frame (lines 219-240) is gone and the caller
\* holds the result and the buffer
HandBack ==
    /\ pc = "returned"
    /\ Len(history) < MaxRepeats
    /\ history' = Append(history, ReturnedCall)
    /\ pc' = "idle"
    /\ input_mask' = <<>>
    /\ copybuf' = <<>>
    /\ raw_result' = <<>>
    /\ pushed_result' = <<>>
    /\ result' = <<>>
    /\ UNCHANGED <<lm, ctor_args, ctor_err, points, orig>>
    /\ UNCHANGED <<algvars, clavars, jcnvars>>

\* the caller calls the same map on the same buffer once more
CallAgain ==
    /\ history # <<>>
    /\ lm # <<>>
    /\ pc = "idle"
    /\ CallBegin(points)

NextRepeat ==
    \/ ConstructOn
    \/ FirstCall
    \/ CallPush
    \/ CallCheck
    \/ HandBack
    \/ CallAgain

SpecRepeat == Init /\ [][NextRepeat]_vars

\* C27: in on mode, once a call of a map on a buffer has returned, every
\* further call of that map on that buffer runs the NaN handling exactly
\* when the first did, does not raise, returns a result equal to the
\* first, and leaves the buffer as it was before the first call.
C27_RepeatDeterministic ==
    (lm # <<>> /\ Self.handle_nans = "on" /\ history # <<>>)
    => LET first == history[1] IN
       /\ \A k \in 1..Len(history) :
             /\ history[k].before = first.before
             /\ history[k].handled = first.handled
             /\ history[k].result = first.result
             /\ history[k].after = first.before
       /\ pc # "raised"
       /\ Called => /\ orig = first.before
                    /\ first.handled <=> input_mask # <<>>
       /\ pc = "returned" => /\ result = <<first.result>>
                             /\ points = first.before

C27_Witness ==
    /\ lm # <<>> /\ Self.handle_nans = "on"
    /\ Len(history) = MaxRepeats
    /\ history[1].handled
    /\ pc = "returned"
    /\ input_mask # <<>>
    /\ NaNPositions(points) # {}
    /\ result = <<history[1].result>>

(***************************************************************************)
(* CLAMap (lines 320-430).  scale and trans are callables of the caller,   *)
(* pure functions of the array they are given; the model draws them from   *)
(* small families and writes a callable as a record:                       *)
(*   "const":   every frame gets the same matrix `value`                   *)
(*   "coefs":   a scale whose coefficient for fg site j is the first       *)
(*              coordinate of copoint j, for each of n_cg cg sites         *)
(*   "offsets": a trans that offsets each of n_cg cg sites by the first    *)
(*              copoint of the frame                                       *)
(***************************************************************************)
Callable(kind, n_cg, value) == [kind |-> kind, n_cg |-> n_cg, value |-> value]

\* fn(x): the array the callable returns for the rank-3 array x
Invoke(fn, x) ==
    IF fn.kind = "const"
    THEN [f \in 1..NFrames(x) |-> fn.value]
    ELSE IF fn.kind = "coefs"
    THEN [f \in 1..NFrames(x) |-> [j \in 1..NSites(x) |-> [c \in 1..fn.n_cg |->
             x[f][j][1]]]]
    ELSE [f \in 1..NFrames(x) |-> [c \in 1..fn.n_cg |-> x[f][1]]]

\* the entry of the caller's record of one invocation
Invocation(name, x) == [fn |-> name, arg |-> x]

Shape3(a) == <<Len(a), Len(a[1]), Len(a[1][1])>>

\* trjdot(points, factor) for per-frame matrices factor[f] of shape
\* (n_fg, n_cg): out[f, c, d] = sum_j factor[f, j, c] * points[f, j, d];
\* an error if the site counts differ
trjdot_frames(p, S) ==
    IF Len(S[1]) # NSites(p)
    THEN [err |-> "ValueError", val |-> <<>>]
    ELSE [err |-> "none",
          val |-> [f \in 1..NFrames(p) |->
                     [c \in 1..Len(S[f][1]) |->
                        [d \in 1..NDims(p) |->
                           dot([j \in 1..NSites(p) |-> S[f][j][c]],
                               [j \in 1..NSites(p) |-> p[f][j][d]])]]]]

\* A + B for numpy arrays of rank 3: axes of length 1 are broadcast, other
\* mismatches raise
add3(A, B) ==
    LET s == Shape3(A)
        t == Shape3(B)
    IN IF \E k \in 1..3 : s[k] # t[k] /\ s[k] # 1 /\ t[k] # 1
       THEN [err |-> "ValueError", val |-> <<>>]
       ELSE LET u == [k \in 1..3 |-> IF s[k] = 1 THEN t[k] ELSE s[k]] IN
            [err |-> "none",
             val |-> [f \in 1..u[1] |-> [i \in 1..u[2] |-> [d \in 1..u[3] |->
                        FAdd(A[BIdx(f, s[1])][BIdx(i, s[2])][BIdx(d, s[3])],
                             B[BIdx(f, t[1])][BIdx(i, t[2])][BIdx(d, t[3])])]]]]

\* np.zeros((F, n, D))
zeros(F, n, D) == [f \in 1..F |-> [j \in 1..n |-> [d \in 1..D |-> Zero]]]

\* _Taggable.__init__ (lines 40-42): None becomes an empty dictionary
TagsOf(tags) == IF tags = <<>> THEN {} ELSE tags[1]

\* the fields lines 395-398 and 42 set
CLAMapFields(scale_fn, trans_fn, n_fg, n_cg, tags) ==
    [_n_cg_sites |-> n_cg, _n_fg_sites |-> n_fg,
     scale |-> scale_fn, trans |-> trans_fn, tags |-> TagsOf(tags)]

\* mutant of lines 381-393: n_cg_sites is taken as given when it is given,
\* and probed for only when it is not
CLAMapInitUnverified(scale_fn, trans_fn, n_fg, n_cg, zeroes_check, tags) ==
    IF n_cg # <<>>
    THEN [err |-> "none", calls |-> <<>>,
          inst |-> <<CLAMapFields(scale_fn, trans_fn, n_fg, n_cg[1], tags)>>]
    ELSE LET z_points == zeros(1, n_fg, n_dim)
             dotted == trjdot_frames(z_points, Invoke(scale_fn, z_points))
             mapped == add3(dotted.val, Invoke(trans_fn, z_points))
         IN IF dotted.err # "none" \/ mapped.err # "none"
            THEN [err |-> "ValueError", calls |-> <<>>, inst |-> <<>>]
            ELSE [err |-> "none", calls |-> <<>>,
                  inst |-> <<CLAMapFields(scale_fn, trans_fn, n_fg,
                                          Len(mapped.val[1]), tags)>>]

\* the zeroes_check branch of CLAMap.__init__ (lines 382-388) and the
\* assignments after it
ZeroesCheck(scale_fn, trans_fn, n_fg, n_cg, tags) ==
    LET z_points == zeros(1, n_fg, n_dim)
        dotted == trjdot_frames(z_points, Invoke(scale_fn, z_points))
    IN IF dotted.err # "none"      \* trjdot raises before trans is called
       THEN [err |-> dotted.err, inst |-> <<>>,
             calls |-> <<Invocation("scale", z_points)>>]
       ELSE LET mapped == add3(dotted.val, Invoke(trans_fn, z_points))
                calls == <<Invocation("scale", z_points),
                           Invocation("trans", z_points)>>
            IN IF mapped.err # "none"
               THEN [err |-> mapped.err, inst |-> <<>>, calls |-> calls]
               ELSE IF n_cg = <<>>
               THEN [err |-> "none", calls |-> calls,
                     inst |-> <<CLAMapFields(scale_fn, trans_fn, n_fg,
                                             Len(mapped.val[1]), tags)>>]
               ELSE IF n_cg[1] # Len(mapped.val[1])
               THEN [err |-> "ValueError", inst |-> <<>>, calls |-> calls]
               ELSE [err |-> "none", calls |-> calls,
                     inst |-> <<CLAMapFields(scale_fn, trans_fn, n_fg,
                                             n_cg[1], tags)>>]

\* mutant of line 381: the probe is made whatever zeroes_check says
CLAMapInitAlwaysProbes(scale_fn, trans_fn, n_fg, n_cg, zeroes_check, tags) ==
    ZeroesCheck(scale_fn, trans_fn, n_fg, n_cg, tags)

\* CLAMap.__init__ (lines 380-398): the instance or the exception that
\* leaves none, and the invocations of scale and trans it made
CLAMapInit(scale_fn, trans_fn, n_fg, n_cg, zeroes_check, tags) ==
    IF zeroes_check
    THEN ZeroesCheck(scale_fn, trans_fn, n_fg, n_cg, tags)
    ELSE IF n_cg = <<>>
    THEN [err |-> "ValueError", inst |-> <<>>, calls |-> <<>>]
    ELSE [err |-> "none", calls |-> <<>>,
          inst |-> <<CLAMapFields(scale_fn, trans_fn, n_fg, n_cg[1], tags)>>]

\* mutant of line 430: the contraction is left out and trans returned
CLAMapCallTransOnly(self, p, co) ==
    [err |-> "none", ret |-> <<Invoke(self.trans, co)>>,
     calls |-> <<Invocation("scale", co), Invocation("trans", co)>>,
     points |-> p, copoints |-> co]

\* mutant of lines 428-429: the coefficients are computed from the points
CLAMapCallOnPoints(self, p, co) ==
    LET dotted == trjdot_frames(p, Invoke(self.scale, p))
        mapped == IF dotted.err # "none" THEN dotted
                  ELSE add3(dotted.val, Invoke(self.trans, co))
    IN [err |-> mapped.err,
        ret |-> IF mapped.err = "none" THEN <<mapped.val>> ELSE <<>>,
        calls |-> <<Invocation("scale", p), Invocation("trans", co)>>,
        points |-> p, copoints |-> co]

\* CLAMap.__call__(points, copoints) (lines 428-430): the exception or the
\* value returned, the invocations made, and the two buffers as the call
\* leaves them
CLAMapCall(self, p, co) ==
    LET scale_val == Invoke(self.scale, co)
        trans_val == Invoke(self.trans, co)
        dotted == trjdot_frames(p, scale_val)
        mapped == IF dotted.err # "none" THEN dotted
                  ELSE add3(dotted.val, trans_val)
    IN [err |-> mapped.err,
        ret |-> IF mapped.err = "none" THEN <<mapped.val>> ELSE <<>>,
        calls |-> <<Invocation("scale", co), Invocation("trans", co)>>,
        points |-> p, copoints |-> co]

\* the callables the model hands to CLAMap as scale: per-frame matrices of
\* shape (n_fg, n_cg), constant or read off the copoints
ScaleFns ==
    UNION {{Callable("const", c, [i \in 1..r |-> [j \in 1..c |-> Zero]]),
            Callable("const", c, Pattern(r, c))} : r \in 1..MaxFg, c \in 1..MaxCg}
    \cup {Callable("coefs", c, <<>>) : c \in 1..MaxCg}

\* the callables handed over as trans: per-frame offsets of shape (n_cg, 3)
TransFns ==
    UNION {{Callable("const", c, [i \in 1..c |-> [d \in 1..n_dim |-> Zero]]),
            Callable("const", c, Pattern(c, n_dim))} : c \in 1..MaxCg}
    \cup {Callable("offsets", c, <<>>) : c \in 1..MaxCg}

\* n_cg_sites: None, or a count up to one past the largest a probe yields
NCgArgs == {<<>>} \cup {<<k>> : k \in 1..(MaxCg + 1)}

\* tags: None or a dictionary
TagArgs == {<<>>, <<{<<"origin", "qp">>}>>}

\* the scale and trans of the zero-probe example: all-zero (1, 6, 2) and
\* all-zero (1, 2, 3)
ExampleScale == Callable("const", 2, [i \in 1..6 |-> [j \in 1..2 |-> Zero]])
ExampleTrans == Callable("const", 2, [i \in 1..2 |-> [d \in 1..n_dim |-> Zero]])

ClaArgs(scale_fn, trans_fn, n_fg, n_cg, zeroes_check, tags) ==
    [scale |-> scale_fn, trans |-> trans_fn, n_fg_sites |-> n_fg,
     n_cg_sites |-> n_cg, zeroes_check |-> zeroes_check, tags |-> tags]

\* CLAMap(scale, trans, n_fg_sites, n_cg_sites, zeroes_check, tags)
ClaConstructWith(a) ==
    /\ cla_args = <<>>
    /\ LET r == CLAMapInit(a.scale, a.trans, a.n_fg_sites, a.n_cg_sites,
                           a.zeroes_check, a.tags)
       IN /\ cla' = r.inst
          /\ cla_err' = r.err
          /\ invoked' = r.calls
    /\ cla_args' = <<a>>
    /\ UNCHANGED <<cla_call, history, jcnvars>>
    /\ UNCHANGED algvars
    /\ UNCHANGED <<lm, ctor_args, ctor_err, points, orig, pc, input_mask,
                   copybuf, raw_result, pushed_result, result>>

\* a CLAMap of callables of the caller, no LinearMap about
ClaConstruct ==
    /\ cla_args = <<>>
    /\ ctor_args = <<>>
    /\ \E s \in ScaleFns, t \in TransFns, n \in 1..MaxFg, c \in NCgArgs,
          z \in BOOLEAN :
          ClaConstructWith(ClaArgs(s, t, n, c, z, <<>>))

\* the zero-probe example: n_fg_sites=6 with n_cg_sites None, 2 or 3
ClaConstructExample ==
    /\ cla_args = <<>>
    /\ ctor_args = <<>>
    /\ \E c \in {<<>>, <<2>>, <<3>>}, z \in BOOLEAN, tg \in TagArgs :
          ClaConstructWith(ClaArgs(ExampleScale, ExampleTrans, 6, c, z, tg))

\* a LinearMap to compare a CLAMap with: a dense matrix, possibly with a NaN
ClaLinear ==
    /\ cla_args = <<>>
    /\ ctor_args = <<>>
    /\ \E M \in AlgMatrices, h \in Modes, t \in Thresholds :
          Construct(Args(NdArray(2, "float", M), <<>>, h, t))

\* the CLAMap of a LinearMap: scale returns the map's coefficients for
\* every frame, laid out (n_fg, n_cg), and trans returns zeros
ClaConstructOfLinear ==
    /\ cla_args = <<>>
    /\ lm # <<>>
    /\ LET M == lm[1].standard_matrix IN
       ClaConstructWith(
          ClaArgs(Callable("const", Len(M), Transpose(M)),
                  Callable("const", Len(M),
                           [i \in 1..Len(M) |-> [d \in 1..n_dim |-> Zero]]),
                  Len(M[1]), <<>>, TRUE, <<>>))

\* the buffer b, and b with a NaN as its first entry
WithLeadingNaN(b) == {b, [b EXCEPT ![1][1][1] = NaN]}

\* the buffers handed over as points: any width up to MaxFg (or the
\* example's six sites), three dims, with or without a NaN
ClaPoints(n_fg) ==
    IF n_fg = NSites(ExampleBuffer) THEN WithLeadingNaN(ExampleBuffer)
    ELSE UNION {WithLeadingNaN(Arange(F, k, n_dim)) :
                   F \in 1..MaxFrames, k \in 1..MaxFg}

\* an array of the shape of p that shares no entry with it: odd halves
OddHalves(p) ==
    [f \in 1..NFrames(p) |-> [j \in 1..NSites(p) |-> [d \in 1..NDims(p) |->
        Rat(2 * (((f - 1) * NSites(p) + (j - 1)) * NDims(p) + (d - 1)) + 1, 2)]]]

\* the buffers handed over as copoints with points p: p itself, another
\* array, and that array with a NaN
ClaCopoints(p) ==
    {p, OddHalves(p), [OddHalves(p) EXCEPT ![1][1][1] = NaN]}

\* cla(points, copoints), the k-th call of the instance, on buffers of
\* the caller
ClaApply(k, p, co) ==
    /\ LET r == CLAMapCall(cla[1], p, co) IN
       /\ cla_call' = <<[n |-> k,
                         given |-> [points |-> p, copoints |-> co],
                         left |-> [points |-> r.points, copoints |-> r.copoints],
                         err |-> r.err, ret |-> r.ret]>>
       /\ invoked' = r.calls
    /\ UNCHANGED <<cla, cla_args, cla_err, history, jcnvars>>
    /\ UNCHANGED algvars
    /\ UNCHANGED <<lm, ctor_args, ctor_err, points, orig, pc, input_mask,
                   copybuf, raw_result, pushed_result, result>>

\* the first call of the instance
ClaCall ==
    /\ cla # <<>>
    /\ cla_call = <<>>
    /\ \E p \in ClaPoints(cla[1]._n_fg_sites) :
          \E co \in ClaCopoints(p) : ClaApply(1, p, co)

\* a further call, on the two buffers as the call before left them
ClaCallAgain ==
    /\ cla # <<>>
    /\ cla_call # <<>>
    /\ cla_call[1].n <= MaxRepeats
    /\ ClaApply(cla_call[1].n + 1, cla_call[1].left.points,
                cla_call[1].left.copoints)

NextCLA ==
    \/ ClaConstruct
    \/ ClaConstructExample
    \/ ClaLinear
    \/ ClaConstructOfLinear
    \/ ClaCall
    \/ ClaCallAgain

SpecCLA == Init /\ [][NextCLA]_vars

(***************************************************************************)
(* Vocabulary of the properties of CLAMap.                                 *)
(***************************************************************************)
ClaConstructing == cla_args # <<>>
ClaGiven == cla_args[1]
ClaSelf == cla[1]
ClaAccepted == cla_err = "none" /\ cla # <<>>
ClaRejected == cla_err = "ValueError" /\ cla = <<>>

\* construction is the last thing done: invoked is what __init__ invoked
JustConstructed == ClaConstructing /\ cla_call = <<>>

\* the zero-filled probe of shape (1, n_fg_sites, 3)
Probe == zeros(1, ClaGiven.n_fg_sites, 3)

\* contraction(probe, scale(probe)) + trans(probe), or the exception
ProbeResult ==
    LET dotted == trjdot_frames(Probe, Invoke(ClaGiven.scale, Probe)) IN
    IF dotted.err # "none" THEN dotted
    ELSE add3(dotted.val, Invoke(ClaGiven.trans, Probe))

ExampleGiven ==
    /\ ClaGiven.scale = ExampleScale /\ ClaGiven.trans = ExampleTrans
    /\ ClaGiven.n_fg_sites = 6

\* C21: with zeroes_check on, construction invokes scale and trans on the
\* zero-filled probe of shape (1, n_fg_sites, 3) and on nothing else; when
\* contraction(probe, scale(probe)) + trans(probe) has a value, an omitted
\* n_cg_sites is set to the value's second dimension, a given n_cg_sites
\* equal to it is kept, and a given n_cg_sites that differs makes
\* construction raise ValueError and leave no instance.  The all-zero
\* (1, 6, 2) scale and (1, 2, 3) trans infer 2 and reject 3.
C21_ZeroProbe ==
    (JustConstructed /\ ClaGiven.zeroes_check)
    => /\ invoked # <<>>
       /\ invoked[1] = Invocation("scale", Probe)
       /\ \A k \in 1..Len(invoked) : invoked[k].arg = Probe
       /\ ProbeResult.err = "none" =>
             LET dim == Len(ProbeResult.val[1]) IN
             /\ invoked = <<Invocation("scale", Probe), Invocation("trans", Probe)>>
             /\ ClaGiven.n_cg_sites = <<>>
                   => ClaAccepted /\ ClaSelf._n_cg_sites = dim
             /\ ClaGiven.n_cg_sites = <<dim>>
                   => ClaAccepted /\ ClaSelf._n_cg_sites = dim
             /\ ClaGiven.n_cg_sites \notin {<<>>, <<dim>>} => ClaRejected
       /\ ExampleGiven =>
             /\ ClaGiven.n_cg_sites = <<>> => ClaAccepted /\ ClaSelf._n_cg_sites = 2
             /\ ClaGiven.n_cg_sites = <<3>> => ClaRejected

C21_Witness ==
    /\ JustConstructed /\ ClaGiven.zeroes_check
    /\ ExampleGiven
    /\ Shape3(ProbeResult.val) = <<1, 2, 3>>
    /\ ClaGiven.n_cg_sites = <<3>>
    /\ ClaRejected

\* C22: with zeroes_check off, construction invokes neither scale nor
\* trans; an omitted n_cg_sites makes it raise ValueError and leave no
\* instance, and a given n_cg_sites is stored as it is, whatever a probe
\* would have found.
C22_NoProbe ==
    (JustConstructed /\ ~ClaGiven.zeroes_check)
    => /\ invoked = <<>>
       /\ ClaGiven.n_cg_sites = <<>> => ClaRejected
       /\ ClaGiven.n_cg_sites # <<>>
             => /\ ClaAccepted
                /\ ClaSelf._n_cg_sites = ClaGiven.n_cg_sites[1]
                /\ ClaSelf._n_fg_sites = ClaGiven.n_fg_sites
                /\ ClaSelf.scale = ClaGiven.scale
                /\ ClaSelf.trans = ClaGiven.trans

\* accepted without a probe although the probe's dimension differs
C22_Witness ==
    /\ JustConstructed /\ ~ClaGiven.zeroes_check
    /\ ClaGiven.n_cg_sites # <<>>
    /\ ProbeResult.err = "none"
    /\ Len(ProbeResult.val[1]) # ClaGiven.n_cg_sites[1]
    /\ ClaAccepted
    /\ ClaSelf._n_cg_sites = ClaGiven.n_cg_sites[1]
    /\ invoked = <<>>

\* the last call of the CLAMap
LastCall == cla_call[1]
ClaCalled == cla # <<>> /\ cla_call # <<>>

\* sum over j <= n of S[f, j, c] * p[f, j, d]
RECURSIVE FrameSum(_, _, _, _, _, _)
FrameSum(S, p, f, c, d, n) ==
    IF n = 0 THEN Zero
    ELSE FAdd(FrameSum(S, p, f, c, d, n - 1), FMul(S[f][n][c], p[f][n][d]))

\* S and b are per-frame coefficients and offsets that fit the points p: the
\* site counts agree, and the cg counts agree or one of them is 1
Fits(p, S, b) ==
    /\ Len(S[1]) = NSites(p)
    /\ Len(S[1][1]) = Len(b[1]) \/ Len(S[1][1]) = 1 \/ Len(b[1]) = 1

\* out[f, i, d] = sum_j S[f, j, i] * p[f, j, d] + b[f, i, d], a cg axis of
\* length 1 standing for every cg site
IsAffineImage(out, p, S, b) ==
    LET nS == Len(S[1][1])
        nb == Len(b[1])
    IN /\ Len(out) = NFrames(p)
       /\ \A f \in 1..NFrames(p) :
             /\ Len(out[f]) = (IF nS = 1 THEN nb ELSE nS)
             /\ \A i \in 1..Len(out[f]) :
                   /\ Len(out[f][i]) = NDims(p)
                   /\ \A d \in 1..NDims(p) :
                         out[f][i][d] =
                            FAdd(FrameSum(S, p, f, BIdx(i, nS), d, NSites(p)),
                                 b[f][BIdx(i, nb)][d])

\* the n_cg_sites construction settled on: the one given, else the probe's
SettledNCg ==
    IF ClaGiven.n_cg_sites # <<>> THEN ClaGiven.n_cg_sites[1]
    ELSE Len(ProbeResult.val[1])

\* C23: __call__(points, copoints) invokes scale and trans on copoints and
\* on nothing else; whenever their values fit the points it returns
\* contraction(points, scale(copoints)) + trans(copoints), with no NaN
\* replaced and no consistency error (a NaN in a slice of points makes the
\* outputs of that slice NaN); it leaves both buffers as they were given,
\* and after any number of calls the instance holds the n_fg_sites, scale,
\* trans and tags it was constructed with and the n_cg_sites construction
\* settled on.
C23_CallFrame ==
    ClaCalled
    => LET p == LastCall.given.points
           co == LastCall.given.copoints
           S == Invoke(ClaSelf.scale, co)
           b == Invoke(ClaSelf.trans, co)
       IN /\ invoked = <<Invocation("scale", co), Invocation("trans", co)>>
          /\ Fits(p, S, b) =>
                /\ LastCall.err = "none"
                /\ IsAffineImage(LastCall.ret[1], p, S, b)
                /\ \A f \in 1..NFrames(p) : \A d \in 1..NDims(p) :
                      NaNInSlice(p, f, d)
                      => \A i \in 1..Len(LastCall.ret[1][f]) :
                            IsNaN(LastCall.ret[1][f][i][d])
          /\ LastCall.left = LastCall.given
          /\ ClaSelf._n_fg_sites = ClaGiven.n_fg_sites
          /\ ClaSelf._n_cg_sites = SettledNCg
          /\ ClaSelf.scale = ClaGiven.scale
          /\ ClaSelf.trans = ClaGiven.trans
          /\ ClaSelf.tags = TagsOf(ClaGiven.tags)

\* a further call whose coefficients come from copoints that are not the
\* points, on points that hold a NaN
C23_Witness ==
    /\ ClaCalled
    /\ LastCall.n > MaxRepeats
    /\ ClaSelf.scale.kind = "coefs"
    /\ ClaSelf.trans.kind = "offsets"
    /\ LastCall.given.copoints # LastCall.given.points
    /\ NaNPositions(LastCall.given.points) # {}
    /\ NaNPositions(LastCall.given.copoints) = {}
    /\ LastCall.err = "none"
    /\ LastCall.ret # CLAMapCallOnPoints(ClaSelf, LastCall.given.points,
                                         LastCall.given.copoints).ret

\* the CLAMap's scale returns the LinearMap's coefficients for every frame
\* and its trans returns zeros
LinearCase ==
    /\ lm # <<>> /\ cla # <<>>
    /\ ClaSelf.scale.kind = "const"
    /\ ClaSelf.scale.value = Transpose(Self.standard_matrix)
    /\ ClaSelf.trans.kind = "const"
    /\ \A i \in 1..Len(ClaSelf.trans.value) : \A d \in 1..Len(ClaSelf.trans.value[i]) :
          ClaSelf.trans.value[i][d] = Zero

\* C24: a CLAMap whose scale returns, for every frame, the coefficient
\* matrix of a LinearMap L and whose trans returns zeros sends points
\* without NaN, whatever the copoints, to what L sends them to.
C24_AgreesWithLinear ==
    (/\ LinearCase /\ ClaCalled
     /\ NSites(LastCall.given.points) = n_fg_sites(Self)
     /\ NaNPositions(LastCall.given.points) = {})
    => /\ LastCall.err = "none"
       /\ __call__(Self, LastCall.given.points).err = "none"
       /\ LastCall.ret = __call__(Self, LastCall.given.points).ret

\* a two-site, two-row map in on mode, copoints with a NaN
C24_Witness ==
    /\ LinearCase /\ ClaCalled
    /\ Self.handle_nans = "on"
    /\ Shape(Self.standard_matrix) = <<2, 2>>
    /\ NaNPositions(LastCall.given.points) = {}
    /\ NaNPositions(LastCall.given.copoints) # {}
    /\ LastCall.err = "none"
    /\ LastCall.ret = __call__(Self, LastCall.given.points).ret
    /\ \E i \in 1..2 : \E d \in 1..3 : LastCall.ret[1][1][i][d] # Zero

(***************************************************************************)
(* JCondNormal (src/src/aggforce/trajectory/jaxgausstraj.py, lines         *)
(* 99-346): the life of its cov attribute.  A covariance argument is a     *)
(* Python float, a numpy array or a jax Array:                             *)
(*     [kind |-> "float" | "ndarray" | "jax", value |-> scalar or matrix]  *)
(* Trajectory arrays are [shape, data] with data in row-major order.  The  *)
(* variates and gradients themselves are random or numerical values that   *)
(* no property here reads; the model keeps their shapes.                   *)
(***************************************************************************)
Cov(kind, value) == [kind |-> kind, value |-> value]

\* isinstance(cov, Array), Array being jax.Array: a numpy array is not one
IsJaxArray(cov) == cov.kind = "jax"

\* jnp.repeat(x, repeats=k) for a scalar or an array x: the array is
\* flattened and every entry repeated k times in place
RECURSIVE RepeatEach(_, _)
RepeatEach(flat, k) ==
    IF flat = <<>> THEN <<>>
    ELSE [i \in 1..k |-> Head(flat)] \o RepeatEach(Tail(flat), k)

repeat(cov, k) ==
    IF cov.kind = "float" THEN [i \in 1..k |-> cov.value]
    ELSE RepeatEach(Concat(cov.value), k)

\* jnp.diag(v) of a 1-d array
diag(v) == [i \in 1..Len(v) |-> [j \in 1..Len(v) |-> IF i = j THEN v[i] ELSE Zero]]

\* _flatten (lines 331-338): (n_f, n_p, n_dim) to (n_f, n_p * n_dim)
_flatten(array) ==
    [shape |-> <<array.shape[1], array.shape[2] * array.shape[3]>>,
     data |-> array.data]

\* the shape _unflatten (lines 340-346) gives an array of shape (n_f, w)
UnflattenedShape(shape) == <<shape[1], shape[2] \div n_dim, n_dim>>

\* row r of a flat array
FlatRow(x, r) == SubSeq(x.data, (r - 1) * x.shape[2] + 1, r * x.shape[2])

\* premap(flattened): _ident, or a map that keeps the first site of every
\* frame (a callable of the caller that reduces the dimension)
PremapOf(premap, x) ==
    IF premap = "_ident" THEN x
    ELSE [shape |-> <<x.shape[1], n_dim>>,
          data |-> Concat([r \in 1..x.shape[1] |-> SubSeq(FlatRow(x, r), 1, n_dim)])]

\* JCondNormal.__init__ (lines 182-211); a seed of None draws one
JCondNormalInit(cov, premap, true_seed) ==
    [_cov |-> cov,
     cov |-> IF IsJaxArray(cov) THEN <<cov.value>> ELSE <<>>,
     premap |-> premap,
     source_postmap |-> "_ident",
     _rkey |-> [seed |-> true_seed, splits |-> 1],
     dtype |-> IF cov.kind = "ndarray" THEN "float64" ELSE "float32"]

\* _sample(means) (lines 311-319): the instance as the call leaves it and
\* the exception, if any, of jrandom.multivariate_normal
_sample(self, means) ==
    LET width == means.shape[2]
        cov == IF self.cov = <<>> THEN <<diag(repeat(self._cov, width))>>
               ELSE self.cov
        after == [self EXCEPT !.cov = cov, !._rkey.splits = @ + 1]
    IN [self |-> after,
        err |-> IF Len(cov[1]) # width THEN "ValueError" ELSE "none",
        shape |-> means.shape]

\* sample(source) (lines 232-234)
sample(self, source) ==
    LET means == PremapOf(self.premap, _flatten(source))
        r == _sample(self, means)
    IN [self |-> r.self, name |-> "sample", err |-> r.err, width |-> means.shape[2],
        ret |-> IF r.err = "none" THEN <<UnflattenedShape(r.shape)>> ELSE <<>>]

\* log_gradient(source, generated) (lines 263-284); logpdf raises when the
\* covariance does not have the dimension of the mean
log_gradient(self, source, generated) ==
    LET flat_source == _flatten(source)
        flat_generated == _flatten(generated)
        width == PremapOf(self.premap, flat_source).shape[2]
        err == IF self.cov = <<>> THEN "ValueError"
               ELSE IF Len(self.cov[1]) # width \/ flat_generated.shape[2] # width
               THEN "ValueError"
               ELSE "none"
    IN [self |-> self, name |-> "log_gradient", err |-> err, width |-> width,
        ret |-> IF err = "none"
                THEN <<UnflattenedShape(flat_source.shape),
                       UnflattenedShape(flat_generated.shape)>>
                ELSE <<>>]

\* what the log keeps of a call: the instance is the variable jcn
Logged(r) == [name |-> r.name, err |-> r.err, width |-> r.width, ret |-> r.ret]

\* the covariance arguments: a float, a numpy matrix for one site, and jax
\* matrices for one and two sites
JSites == {1, 2}
CovArgs ==
    {Cov("float", Half), Cov("float", One),
     Cov("ndarray", diag([i \in 1..n_dim |-> Half]))}
    \cup {Cov("jax", diag([i \in 1..(n * n_dim) |-> Half])) : n \in JSites}

Premaps == {"_ident", "first_site"}
Seeds == {0, 1}

\* the trajectories handed to sample and log_gradient
JSources == {FlatArray(<<F, n, n_dim>>) : F \in 1..MaxFrames, n \in JSites}

\* the generated positions that go with a source: as many sites as the
\* premap leaves
JGenerated(self, source) ==
    FlatArray(UnflattenedShape(PremapOf(self.premap, _flatten(source)).shape))

\* JCondNormal(cov, premap=premap, seed=seed)
JConstruct ==
    /\ jcn = <<>>
    /\ \E cov \in CovArgs, premap \in Premaps, seed \in Seeds :
          jcn' = <<JCondNormalInit(cov, premap, seed)>>
    /\ UNCHANGED <<jcn_log, history, clavars>>
    /\ UNCHANGED algvars
    /\ UNCHANGED <<lm, ctor_args, ctor_err, points, orig, pc, input_mask,
                   copybuf, raw_result, pushed_result, result>>

\* one more call is made on the instance
JMethod(r) ==
    /\ jcn' = <<r.self>>
    /\ jcn_log' = Append(jcn_log, Logged(r))
    /\ UNCHANGED <<history, clavars>>
    /\ UNCHANGED algvars
    /\ UNCHANGED <<lm, ctor_args, ctor_err, points, orig, pc, input_mask,
                   copybuf, raw_result, pushed_result, result>>

\* jcn.sample(source)
JSample ==
    /\ jcn # <<>>
    /\ Len(jcn_log) <= MaxRepeats
    /\ \E source \in JSources : JMethod(sample(jcn[1], source))

\* jcn.log_gradient(source, generated)
JLogGradient ==
    /\ jcn # <<>>
    /\ Len(jcn_log) <= MaxRepeats
    /\ \E source \in JSources :
          JMethod(log_gradient(jcn[1], source, JGenerated(jcn[1], source)))

NextJCondNormal ==
    \/ JConstruct
    \/ JSample
    \/ JLogGradient

SpecJCondNormal == Init /\ [][NextJCondNormal]_vars

(***************************************************************************)
(* Vocabulary of the properties of JCondNormal.                            *)
(***************************************************************************)
JSelf == jcn[1]
ScalarGiven == JSelf._cov.kind = "float"

\* the positions in the log of the calls of sample
Samples == {k \in 1..Len(jcn_log) : jcn_log[k].name = "sample"}

\* the width of the mapped means of the first sample call
FirstSampleWidth == jcn_log[CHOOSE k \in Samples : \A l \in Samples : k <= l].width

\* the k x k diagonal matrix of the scalar c
ScalarMatrix(c, k) == [i \in 1..k |-> [j \in 1..k |-> IF i = j THEN c ELSE Zero]]

\* C25: cov is None after construction exactly when a scalar was given; a
\* matrix given at construction, numpy arrays included, is cov from then on
\* and log_gradient works without a sample call before it.  With a scalar,
\* log_gradient raises ValueError until sample has been called, and from
\* the first sample call on cov is the diagonal matrix of the scalar,
\* sized by the mapped means of that call, and does not change.
C25_CovLifecycle ==
    jcn # <<>>
    => /\ jcn_log = <<>> => (JSelf.cov = <<>> <=> ScalarGiven)
       /\ ~ScalarGiven =>
             /\ JSelf.cov = <<JSelf._cov.value>>
             /\ \A k \in 1..Len(jcn_log) :
                   (jcn_log[k].name = "log_gradient"
                    /\ jcn_log[k].width = Len(JSelf._cov.value))
                   => jcn_log[k].err = "none"
       /\ ScalarGiven =>
             /\ \A k \in 1..Len(jcn_log) :
                   (jcn_log[k].name = "log_gradient" /\ \A l \in Samples : k < l)
                   => jcn_log[k].err = "ValueError"
             /\ Samples = {} => JSelf.cov = <<>>
             /\ Samples # {} =>
                   JSelf.cov = <<ScalarMatrix(JSelf._cov.value, FirstSampleWidth)>>

\* the same lifecycle, of the covariances line 198 tells apart: a float
\* and a jax Array
CovLifecycleOfJaxArrays ==
    (jcn # <<>> /\ JSelf._cov.kind # "ndarray") => C25_CovLifecycle

====
